---- MODULE Spec2Model ----
(***************************************************************************)
(* Model of the ratarmount core mount sources for AR archives (ar.py) and  *)
(* HTML documents with embedded data URLs (html.py).                       *)
(*                                                                         *)
(* Bytes and characters are one-symbol strings ("a", "/", "\n"); the two   *)
(* bytes that cannot be written as a TLA+ string literal carry names (NUL, *)
(* GRAVE).  A byte string or text is a sequence of such symbols.           *)
(***************************************************************************)
EXTENDS Integers, Sequences, FiniteSets, TLC

VARIABLES
    input,        \* the archive as it was written: magic, record templates, truncation
    stream,       \* bytes of the backing stream (fileObject)
    fpos,         \* position of fileObject
    is_thin,      \* _parse_ar_archive: is_thin
    long_names,   \* _parse_ar_archive: long_names (None, bytes or list of bytes)
    files,        \* _parse_ar_archive: files, the TarInfo records built so far
    pc,           \* where the construction of the mount source stands
    rows,         \* the rows installed in the index by set_file_infos
    reader,       \* the reader returned by the last open(), or its failure
    result,       \* the bytes returned by the last read()
    urlInput,     \* the parts a data URL was written from
    url,          \* the text handed to DataURLFile
    urlFile,      \* the DataURLFile object, or the exception of its constructor
    htmlInput,    \* the HTML document as it was written: its segments
    document,     \* characters of the document, the text stream of HTMLMountSource
    ev,           \* HTMLParser: index of the next handler call of feed
    parserFiles,  \* HTMLDataURLParser.files
    embedded,     \* the result of gather_embedded_files
    hpc,          \* construction of HTMLMountSource: feed, gathered, ready or failed
    htmlError,    \* the exception that ended the construction
    htmlRows,     \* rows installed in the index of the HTMLMountSource
    opened,       \* the row open() was last called for
    htmlFile,     \* the DataURLFile open() returned
    pathInput,    \* the path handed to normpath and _query_normpath
    stored,       \* the result of normpath
    queried,      \* the result of _query_normpath
    query,        \* the last call of lookup, list and versions, and what it returned
    lockHolder,   \* for each lock, the thread that holds it, or 0
    tpc,          \* where each thread is in its open() or read()
    treader,      \* the reader of each thread
    tresult,      \* what the last read of each thread returned
    spos,         \* the position of the backing stream the threads share
    given,        \* what the constructor was given: "path" or "object"
    backing,      \* the backing stream: "unopened", "open" or "closed"
    closes,       \* the number of calls of close()
    lastCall      \* the last open() or read() and the number of close() before it

arVars == <<input, stream, fpos, is_thin, long_names, files, pc, rows, reader, result>>

urlVars == <<urlInput, url, urlFile>>

htmlVars == <<htmlInput, document, ev, parserFiles, embedded, hpc, htmlError, htmlRows, opened, htmlFile>>

pathVars == <<pathInput, stored, queried>>

indexVars == <<query>>

threadVars == <<lockHolder, tpc, treader, tresult, spos>>

lifeVars == <<given, backing, closes, lastCall>>

\* What the actions of one component leave alone.
besideAr == <<urlVars, htmlVars, pathVars, threadVars, lifeVars>>
besideUrl == <<arVars, htmlVars, pathVars, indexVars, threadVars, lifeVars>>
besideHtml == <<arVars, urlVars, pathVars, threadVars, lifeVars>>

vars == <<arVars, urlVars, htmlVars, pathVars, indexVars, threadVars, lifeVars>>

-----------------------------------------------------------------------------
(* Byte symbols and byte-string helpers (Python bytes / str methods).      *)

NUL == "NUL"
GRAVE == "GRAVE"
NL == "\n"
SP == " "

Digits == {"0", "1", "2", "3", "4", "5", "6", "7", "8", "9"}

DigitVal(c) == CHOOSE d \in 0..9 : ToString(d) = c

Min(a, b) == IF a < b THEN a ELSE b
Max(a, b) == IF a > b THEN a ELSE b

\* s[from:to] of Python for 0 <= from, 0-based and end-exclusive.
Slice(s, from, to) == SubSeq(s, from + 1, Min(to, Len(s)))

StartsWith(s, p) == Len(s) >= Len(p) /\ SubSeq(s, 1, Len(p)) = p

EndsWith(s, p) == Len(s) >= Len(p) /\ SubSeq(s, Len(s) - Len(p) + 1, Len(s)) = p

\* s.find(sub, from): the lowest 0-based index >= from where sub occurs, or -1.
Find(s, sub, from) ==
    LET hits == {i \in from..(Len(s) - Len(sub)) : SubSeq(s, i + 1, i + Len(sub)) = sub}
    IN  IF hits = {} THEN -1 ELSE CHOOSE i \in hits : \A j \in hits : i <= j

RECURSIVE RStrip(_, _)
RStrip(s, chars) ==
    IF s # <<>> /\ s[Len(s)] \in chars THEN RStrip(SubSeq(s, 1, Len(s) - 1), chars) ELSE s

RECURSIVE LStrip(_, _)
LStrip(s, chars) ==
    IF s # <<>> /\ s[1] \in chars THEN LStrip(Tail(s), chars) ELSE s

Strip(s, chars) == LStrip(RStrip(s, chars), chars)

\* s.split(sep) of Python: always at least one element.
RECURSIVE Split(_, _)
Split(s, sep) ==
    LET i == Find(s, sep, 0)
    IN  IF i < 0 THEN <<s>>
        ELSE <<Slice(s, 0, i)>> \o Split(Slice(s, i + Len(sep), Len(s)), sep)

\* s.ljust(width) with spaces.
LJust(s, width) == s \o [i \in 1..(width - Len(s)) |-> SP]

RECURSIVE Concat(_)
Concat(ss) ==
    IF ss = <<>> THEN <<>>
    ELSE IF Len(ss) = 1 THEN ss[1]
    ELSE Concat(SubSeq(ss, 1, Len(ss) \div 2)) \o Concat(SubSeq(ss, Len(ss) \div 2 + 1, Len(ss)))

\* a | b on non-negative integers.
RECURSIVE BitOr(_, _)
BitOr(a, b) ==
    IF a = 0 THEN b
    ELSE IF b = 0 THEN a
    ELSE (IF a % 2 = 1 \/ b % 2 = 1 THEN 1 ELSE 0) + 2 * BitOr(a \div 2, b \div 2)

\* stat module
S_IFREG == 32768
S_IFLNK == 40960
S_IFDIR == 16384
S_ISLNK(mode) == (mode \div 4096) % 16 = S_IFLNK \div 4096
S_ISREG(mode) == (mode \div 4096) % 16 = S_IFREG \div 4096
S_ISDIR(mode) == (mode \div 4096) % 16 = S_IFDIR \div 4096

\* fileObject.read(n) at position p of a binary stream: the bytes and nothing
\* beyond the end; a position past the end reads nothing.
FileRead(s, p, n) == IF p >= Len(s) THEN <<>> ELSE SubSeq(s, p + 1, Min(p + n, Len(s)))

-----------------------------------------------------------------------------
(* The AR header (ar.py:61-74).                                            *)

HEADER_SIZE == 60
MAGIC_SIZE == 8
ARCH_MAGIC == <<"!", "<", "a", "r", "c", "h", ">", NL>>
THIN_MAGIC == <<"!", "<", "t", "h", "i", "n", ">", NL>>
POSIX_SYMBOL_TABLE_NAME == <<"/">>
GNU_INDEX_NAME == <<"/", "/">>
BSD_LONG_NAME_PREFIX == <<"#", "1", "/">>
HEADER_END == <<GRAVE, NL>>
DEFAULT_MODE == 432

\* The result of a conversion to an integer.
Value(n) == [ok |-> TRUE, v |-> n]
ValueError == [ok |-> FALSE, v |-> 0]

\* _DECIMAL_NUMBER_REGEX = b"[0-9]* *", fullmatch.
DecimalNumberRegex(field) ==
    \E k \in 0..Len(field) :
        /\ \A i \in 1..k : field[i] \in Digits
        /\ \A i \in (k + 1)..Len(field) : field[i] = SP

\* int(digits, base) of Python for a non-empty string of ASCII digits;
\* a digit that does not exist in the base is a ValueError.
RECURSIVE IntOf(_, _)
IntOf(digits, base) ==
    IF digits = <<>> THEN 0
    ELSE IntOf(SubSeq(digits, 1, Len(digits) - 1), base) * base + DigitVal(digits[Len(digits)])

IsDigits(s) == s # <<>> /\ \A i \in 1..Len(s) : s[i] \in Digits

PyInt(s, base) ==
    IF IsDigits(s) /\ \A i \in 1..Len(s) : DigitVal(s[i]) < base
    THEN Value(IntOf(s, base)) ELSE ValueError

\* int() alone, which also accepts whitespace in front of the digits.
parse_intMutant(field_bytes, base, default) ==
    LET field_str == Strip(field_bytes, {SP, NL})
    IN  IF field_str # <<>> THEN PyInt(field_str, base) ELSE Value(default)

parse_int(field_bytes, base, default) ==
    IF ~DecimalNumberRegex(field_bytes) THEN ValueError
    ELSE LET field_str == Strip(field_bytes, {SP, NL})
         IN  IF field_str # <<>> THEN PyInt(field_str, base) ELSE Value(default)

-----------------------------------------------------------------------------
(* The archives the parser is run on.  An archive is written from a magic, *)
(* a sequence of record templates and a truncation; the parser only ever   *)
(* sees the resulting bytes.                                               *)

MaxRecords == 2

Rec(name, mode, size, body) ==
    [name |-> name, mtime |-> <<"0">>, mode |-> mode, size |-> size,
     term |-> HEADER_END, body |-> body]

\* GNU long-name tables.  TABLE_EVEN holds "lo" (entry 0, byte 0) and "mn"
\* (entry 1, byte 4); TABLE_ODD holds "l" (entry 0, byte 0) and "mn" (entry 1,
\* byte 3) and is followed by a pad byte; TABLE_PADDED holds "k" and the
\* newline that GNU ar puts inside the table to make its size even.
TABLE_EVEN == <<"l", "o", "/", NL, "m", "n", "/", NL>>
TABLE_ODD == <<"l", "/", NL, "m", "n", "/", NL>>
TABLE_PADDED == <<"k", "/", NL, NL>>

RecordTemplates ==
    { Rec(<<"a">>, <<"6", "4", "4">>, <<"2">>, <<"x", "y">>),
      Rec(<<"b", "/">>, <<"1", "0", "0", "6", "4", "4">>, <<"1">>, <<"z">>),
      Rec(<<"c">>, <<"4", "0", "7", "5", "5">>, <<>>, <<>>),
      Rec(<<"d">>, <<"1", "2", "0", "7", "7", "7">>, <<"3">>, <<"u", "v", "w">>),
      Rec(POSIX_SYMBOL_TABLE_NAME, <<>>, <<"3">>, <<"s", "y", "m">>),
      Rec(GNU_INDEX_NAME, <<>>, <<"8">>, TABLE_EVEN),
      Rec(GNU_INDEX_NAME, <<>>, <<"7">>, TABLE_ODD),
      Rec(GNU_INDEX_NAME, <<>>, <<"4">>, TABLE_PADDED),
      Rec(<<"/", "0">>, <<"6", "4", "4">>, <<"2">>, <<"p", "q">>),
      Rec(<<"/", "1">>, <<"6", "4", "4">>, <<"1">>, <<"r">>),
      Rec(<<"/", "4">>, <<"6", "4", "4">>, <<"2">>, <<"g", "h">>),
      Rec(<<"/", "9">>, <<"6", "4", "4">>, <<"2">>, <<"i", "j">>),
      Rec(<<"#", "1", "/", "3">>, <<"6", "4", "4">>, <<"5">>, <<"L", "N", NUL, "e", "f">>),
      Rec(<<"#", "1", "/", "2">>, <<"6", "4", "4">>, <<"1">>, <<"L", "N">>),
      [Rec(<<"e">>, <<"6", "4", "4">>, <<"2">>, <<"x", "y">>) EXCEPT !.term = <<GRAVE, SP>>],
      [Rec(<<"f">>, <<"6", "4", "4">>, <<"2">>, <<"x", "y">>) EXCEPT !.mtime = <<"1", "x">>],
      Rec(<<"g">>, <<"6", "4", "4">>, <<SP, "2">>, <<"x", "y">>),
      Rec(<<"h">>, <<"6", "9">>, <<"2">>, <<"x", "y">>) }

Magics == {ARCH_MAGIC, THIN_MAGIC, <<"!", "<", "a", "r", ">", NL, NL, NL>>}

\* Number of bytes cut off the end of the archive.
Truncations == {0, 1, 4}

IsSpecialName(name) == name = POSIX_SYMBOL_TABLE_NAME \/ name = GNU_INDEX_NAME

WriteHeader(rec) ==
    LJust(rec.name, 16) \o LJust(rec.mtime, 12) \o LJust(<<"0">>, 6) \o LJust(<<"0">>, 6)
        \o LJust(rec.mode, 8) \o LJust(rec.size, 10) \o rec.term

\* A member of a thin archive has no body in the archive; every other
\* record is followed by its body and by a newline up to an even offset.
WriteRecord(rec, thin) ==
    WriteHeader(rec) \o
        (IF thin /\ ~IsSpecialName(rec.name) THEN <<>>
         ELSE rec.body \o (IF Len(rec.body) % 2 = 1 THEN <<NL>> ELSE <<>>))

WriteArchive(magic, recs, cut) ==
    LET all == magic \o Concat([i \in 1..Len(recs) |-> WriteRecord(recs[i], magic = THIN_MAGIC)])
    IN  SubSeq(all, 1, Max(Len(all) - cut, 0))

RecordSeqs == UNION {[1..n -> RecordTemplates] : n \in 0..MaxRecords}

-----------------------------------------------------------------------------
(* _parse_ar_archive                                                       *)

None == [kind |-> "None"]
Bytes(b) == [kind |-> "bytes", v |-> b]
List(l) == [kind |-> "list", v |-> l]

\* Truth value of long_names: None, b"" and [] are false.
Truthy(ln) == ln.kind # "None" /\ ln.v # <<>>

REGTYPE == "0"
SYMTYPE == "2"

TarInfo(offset) ==
    [name |-> <<>>, offset |-> offset - HEADER_SIZE, offset_data |-> offset, size |-> 0,
     mtime |-> 0, uid |-> 0, gid |-> 0, mode |-> 420, linkname |-> <<>>, type |-> REGTYPE]

get_long_file_name(ln, thin, name) ==
    IF Truthy(ln) /\ StartsWith(name, <<"/">>) /\ IsDigits(Tail(name))
    THEN LET index == IntOf(Tail(name), 10)
         IN  IF index >= 0 /\ index < Len(ln.v)
             THEN IF ~thin THEN ln.v[index + 1]
                  ELSE IF ln.kind = "bytes"
                       THEN LET end == Find(ln.v, <<"/", NL>>, index)
                            IN  IF end >= index THEN Slice(ln.v, index, end) ELSE name
                       ELSE name
             ELSE name
    ELSE name

\* struct.unpack("16s12s6s6s8s10s2s", header_data)
header_parts(header_data) ==
    <<SubSeq(header_data, 1, 16), SubSeq(header_data, 17, 28), SubSeq(header_data, 29, 34),
      SubSeq(header_data, 35, 40), SubSeq(header_data, 41, 48), SubSeq(header_data, 49, 58),
      SubSeq(header_data, 59, 60)>>

HeaderEndOkMutant(parts) == TRUE
HeaderEndOk(parts) == parts[7] = HEADER_END

\* Lines 105-131: the fields of one header, or the error that aborts the parse.
ParseHeader(header_data, offset, thin) ==
    LET parts == header_parts(header_data)
        mtime == parse_int(parts[2], 10, 0)
        uid == parse_int(parts[3], 10, 0)
        gid == parse_int(parts[4], 10, 0)
        mode == parse_int(parts[5], 8, DEFAULT_MODE)
        size == parse_int(parts[6], 10, 0)
    IN  IF ~HeaderEndOk(parts) THEN [error |-> "RatarmountError"]
        ELSE IF ValueError \in {mtime, uid, gid, mode, size} THEN [error |-> "RatarmountError"]
        ELSE [error |-> "None",
              name |-> RStrip(parts[1], {SP, NUL}),
              info |-> [TarInfo(offset) EXCEPT
                          !.mtime = mtime.v, !.uid = uid.v, !.gid = gid.v, !.size = size.v,
                          !.mode = IF thin THEN BitOr(BitOr(mode.v, S_IFREG), S_IFLNK)
                                   ELSE BitOr(mode.v, S_IFREG)]]

\* A table whose last entry is never dropped.
ReadLongNamesMutant(thin, size, offset) ==
    LET data == FileRead(stream, offset, size)
    IN  [names |-> IF thin THEN Bytes(data) ELSE List(Split(data, <<"/", NL>>)),
         pos |-> offset + Len(data) + (IF thin THEN 0 ELSE size % 2)]

\* Lines 140-151: the long-name table and the position behind it.
ReadLongNames(thin, size, offset) ==
    LET data == FileRead(stream, offset, size)
        after == offset + Len(data)
        names == Split(data, <<"/", NL>>)
    IN  IF thin THEN [names |-> Bytes(data), pos |-> after]
        ELSE IF size % 2 = 0
             THEN [names |-> List(IF names # <<>> /\ names[Len(names)] \in {<<GRAVE>>, <<NL>>}
                                  THEN SubSeq(names, 1, Len(names) - 1) ELSE names),
                   pos |-> after]
             ELSE [names |-> List(names), pos |-> after + (size % 2)]

ApplyLongNamesMutant(fs, ln, thin) ==
    [i \in 1..Len(fs) |->
        IF thin THEN fs[i]
        ELSE [fs[i] EXCEPT !.name = get_long_file_name(ln, thin, fs[i].name)]]

\* Lines 153-158: rewrite of the members that precede the table.
ApplyLongNames(fs, ln, thin) ==
    [i \in 1..Len(fs) |->
        IF thin THEN [fs[i] EXCEPT !.linkname = get_long_file_name(ln, thin, fs[i].name)]
        ELSE [fs[i] EXCEPT !.name = get_long_file_name(ln, thin, fs[i].name)]]

\* The data moves behind the name, the size stays that of the header.
AdjustForBsdNameSizeMutant(info, name_size) == [info EXCEPT !.offset_data = @ + name_size]

AdjustForBsdNameMutant(info, name_size) == [info EXCEPT !.size = @ - name_size]

\* Lines 172-173: the BSD long name is taken off the front of the body.
AdjustForBsdName(info, name_size) ==
    [info EXCEPT !.offset_data = @ + name_size, !.size = @ - name_size]

\* Lines 162-185: the member behind a header, or the error that aborts the parse.
ParseMember(name, info, offset, ln, thin) ==
    LET bsd == StartsWith(name, BSD_LONG_NAME_PREFIX)
        parsed == IF bsd THEN PyInt(Slice(name, Len(BSD_LONG_NAME_PREFIX), Len(name)), 10)
                  ELSE Value(0)
        name_size == parsed.v
        bsd_name == FileRead(stream, offset, name_size)
    IN  IF ~parsed.ok THEN [error |-> "ValueError"]
        ELSE IF bsd /\ Len(bsd_name) # name_size THEN [error |-> "RatarmountError"]
        ELSE LET name1 == IF bsd THEN bsd_name ELSE name
                 info1 == IF bsd THEN AdjustForBsdName(info, name_size) ELSE info
                 info2 == IF Truthy(ln) /\ thin
                          THEN [info1 EXCEPT !.linkname = get_long_file_name(ln, thin, name1),
                                             !.type = SYMTYPE]
                          ELSE info1
                 name2 == IF Truthy(ln) /\ ~thin THEN get_long_file_name(ln, thin, name1) ELSE name1
             IN  [error |-> "None", info |-> [info2 EXCEPT !.name = Strip(name2, {NUL})]]

\* Lines 187-194: where the next header is read.
NextHeaderPos(thin, offset, size) == IF thin THEN offset ELSE offset + size + (size % 2)

ReadMagic ==
    /\ pc = "magic"
    /\ LET magic == FileRead(stream, 0, MAGIC_SIZE)
       IN  /\ is_thin' = (magic = THIN_MAGIC)
           /\ fpos' = Len(magic)
           /\ pc' = IF magic # ARCH_MAGIC /\ magic # THIN_MAGIC THEN "failed" ELSE "headers"
    /\ UNCHANGED <<input, stream, long_names, files, rows, reader, result>>

\* One iteration of the loop over the headers (lines 96-194).
ParseRecord ==
    /\ pc = "headers"
    /\ LET header_data == FileRead(stream, fpos, HEADER_SIZE)
           offset == fpos + HEADER_SIZE
           hdr == ParseHeader(header_data, offset, is_thin)
       IN  IF header_data = <<>>
           THEN pc' = "parsed" /\ UNCHANGED <<fpos, long_names, files>>
           ELSE IF Len(header_data) < HEADER_SIZE \/ hdr.error # "None"
           THEN pc' = "failed" /\ fpos' = fpos + Len(header_data) /\ UNCHANGED <<long_names, files>>
           ELSE IF hdr.name = POSIX_SYMBOL_TABLE_NAME
           THEN /\ fpos' = offset + hdr.info.size + (hdr.info.size % 2)
                /\ UNCHANGED <<pc, long_names, files>>
           ELSE IF hdr.name = GNU_INDEX_NAME
           THEN LET table == ReadLongNames(is_thin, hdr.info.size, offset)
                IN  /\ long_names' = table.names
                    /\ fpos' = table.pos
                    /\ files' = ApplyLongNames(files, table.names, is_thin)
                    /\ UNCHANGED pc
           ELSE LET member == ParseMember(hdr.name, hdr.info, offset, long_names, is_thin)
                IN  IF member.error # "None"
                    THEN pc' = "failed" /\ fpos' = Len(stream) /\ UNCHANGED <<long_names, files>>
                    ELSE /\ files' = Append(files, member.info)
                         /\ fpos' = NextHeaderPos(is_thin, offset, hdr.info.size)
                         /\ UNCHANGED <<pc, long_names>>
    /\ UNCHANGED <<input, stream, is_thin, rows, reader, result>>

-----------------------------------------------------------------------------
(* SQLiteIndex.normpath: the storage form of a path.                       *)

RECURSIVE ResolveSegments(_, _)
ResolveSegments(segments, done) ==
    IF segments = <<>> THEN done
    ELSE LET seg == Head(segments)
         IN  IF seg = <<>> \/ seg = <<".">> THEN ResolveSegments(Tail(segments), done)
             ELSE IF seg = <<".", ".">>
                  THEN ResolveSegments(Tail(segments),
                                       IF done = <<>> THEN done ELSE SubSeq(done, 1, Len(done) - 1))
                  ELSE ResolveSegments(Tail(segments), Append(done, seg))

JoinPath(segments) == Concat([i \in 1..Len(segments) |-> <<"/">> \o segments[i]])

\* normpath that removes the empty segments only.
normpathMutant(path) ==
    LET segments == SelectSeq(Split(path, <<"/">>), LAMBDA seg : seg # <<>>)
    IN  IF segments = <<>> THEN <<"/">> ELSE JoinPath(segments)

normpath(path) ==
    LET segments == ResolveSegments(Split(path, <<"/">>), <<>>)
    IN  IF segments = <<>> THEN <<"/">> ELSE JoinPath(segments)

\* s.rsplit("/", 1) of a string that contains a "/".
RSplitSlash(s) ==
    LET i == CHOOSE k \in 1..Len(s) : s[k] = "/" /\ \A j \in (k + 1)..Len(s) : s[j] # "/"
    IN  <<SubSeq(s, 1, i - 1), SubSeq(s, i + 1, Len(s))>>

-----------------------------------------------------------------------------
(* ARMountSource                                                           *)

\* _convert_to_row.  The archive bytes of the model are ASCII, on which
\* decoding with the index encoding maps every byte to the same character;
\* transform is the identity, its default.
_convert_to_row(info) ==
    LET mode0 == info.mode
        mode1 == IF mode0 = 0 THEN DEFAULT_MODE ELSE mode0
        mode == BitOr(BitOr(mode1, IF info.type = SYMTYPE THEN S_IFLNK ELSE mode1), S_IFREG)
        split == RSplitSlash(normpath(info.name))
    IN  [path |-> split[1], name |-> split[2], offsetheader |-> info.offset,
         offset |-> info.offset_data, size |-> info.size, mtime |-> info.mtime,
         mode |-> mode, linkname |-> info.linkname, uid |-> info.uid, gid |-> info.gid]

\* An installation that also takes place while the parser is at work.
FinalizeEarlyMutant ==
    /\ pc \in {"headers", "parsed"}
    /\ rows' = [i \in 1..Len(files) |-> _convert_to_row(files[i])]
    /\ pc' = IF pc = "parsed" THEN "ready" ELSE pc
    /\ UNCHANGED <<input, stream, fpos, is_thin, long_names, files, reader, result>>

\* An installation that leaves out the row of the last member.
FinalizeMutant ==
    /\ pc = "parsed"
    /\ rows' = [i \in 1..(Len(files) - 1) |-> _convert_to_row(files[i])]
    /\ pc' = "ready"
    /\ UNCHANGED <<input, stream, fpos, is_thin, long_names, files, reader, result>>

\* self._finalize_index(lambda: self.index.set_file_infos([...])): the rows of
\* all members are installed in one call, after the parser has returned.
Finalize ==
    /\ pc = "parsed"
    /\ rows' = [i \in 1..Len(files) |-> _convert_to_row(files[i])]
    /\ pc' = "ready"
    /\ UNCHANGED <<input, stream, fpos, is_thin, long_names, files, reader, result>>

NoReader == [status |-> "none", row |-> 0, offset |-> 0, size |-> 0, pos |-> 0]
NoResult == [status |-> "none", data |-> <<>>, at |-> 0, n |-> 0]

\* RawStenciledFile([(fileObject, offset, size)], lock): a reader at logical
\* position 0 of the stencil.
\* A stencil that is one byte longer than the member.
_open_stencilMutant(offset, size) == [NoReader EXCEPT !.status = "open", !.offset = offset, !.size = size + 1]

_open_stencil(offset, size) == [NoReader EXCEPT !.status = "open", !.offset = offset, !.size = size]

\* open(fileInfo) for the FileInfo of row i.
open(row) ==
    IF S_ISLNK(row.mode) THEN [NoReader EXCEPT !.status = "RatarmountError"]
    ELSE _open_stencil(row.offset, row.size)

Open(i) ==
    /\ pc = "ready"
    /\ i \in 1..Len(rows)
    /\ reader' = [open(rows[i]) EXCEPT !.row = i]
    /\ result' = NoResult
    /\ UNCHANGED <<input, stream, fpos, is_thin, long_names, files, pc, rows>>

\* read(n) of the stenciled reader; n = -1 reads up to the logical end.  The
\* backing stream is positioned at offset + pos and at most the rest of the
\* stencil is read from it.
StencilRead(rd, n) ==
    LET rest == Max(rd.size - rd.pos, 0)
        count == IF n < 0 THEN rest ELSE Min(n, rest)
    IN  FileRead(stream, rd.offset + rd.pos, count)

Read(n) ==
    /\ pc = "ready"
    /\ reader.status = "open"
    /\ LET data == StencilRead(reader, n)
       IN  /\ result' = [status |-> "data", data |-> data, at |-> reader.pos, n |-> n]
           /\ reader' = [reader EXCEPT !.pos = @ + Len(data)]
           /\ fpos' = reader.offset + reader.pos + Len(data)
    /\ UNCHANGED <<input, stream, is_thin, long_names, files, pc, rows>>

ReadSizes == {-1, 1}

-----------------------------------------------------------------------------

\* No data URL is being decoded.
NoUrlFile ==
    [state |-> "none", mime_type |-> <<>>, encoding |-> "", is_base64 |-> FALSE,
     valid |-> FALSE, content |-> <<>>]

HtmlIdle ==
    /\ htmlInput = <<>>
    /\ document = <<>>
    /\ ev = 0
    /\ parserFiles = <<>>
    /\ embedded = <<>>
    /\ hpc = "idle"
    /\ htmlError = "None"
    /\ htmlRows = <<>>
    /\ opened = 0
    /\ htmlFile = NoUrlFile

UrlIdle ==
    /\ urlInput = [scheme |-> <<>>, mime |-> <<>>, params |-> <<>>, payload |-> <<>>]
    /\ url = <<>>
    /\ urlFile = NoUrlFile

\* No path is being normalized and the index was not asked anything.
NoPath == <<"n", "o", "n", "e">>
NoQuery == [path |-> NoPath]

PathIdle ==
    /\ pathInput = NoPath
    /\ stored = NoPath
    /\ queried = NoPath

IndexIdle == query = NoQuery

Threads == {1, 2}

\* No thread uses the mount source.
ThreadIdle ==
    /\ lockHolder = [l \in {"fileObjectLock"} |-> 0]
    /\ tpc = [t \in Threads |-> "idle"]
    /\ treader = [t \in Threads |-> NoReader]
    /\ tresult = [t \in Threads |-> NoResult]
    /\ spos = 0

NoCall == [op |-> "none", closes |-> 0, ok |-> TRUE]

\* The source was made from a path, its stream is open, nobody closes it.
LifeIdle ==
    /\ given = "path"
    /\ backing = "open"
    /\ closes = 0
    /\ lastCall = NoCall

Unused == IndexIdle /\ ThreadIdle /\ LifeIdle

InitAR ==
    /\ UrlIdle
    /\ HtmlIdle
    /\ PathIdle
    /\ Unused
    /\ input \in [magic : Magics, recs : RecordSeqs, cut : Truncations]
    /\ stream = WriteArchive(input.magic, input.recs, input.cut)
    /\ fpos = 0
    /\ is_thin = FALSE
    /\ long_names = None
    /\ files = <<>>
    /\ pc = "magic"
    /\ rows = <<>>
    /\ reader = NoReader
    /\ result = NoResult

NextAR ==
    /\ \/ ReadMagic
       \/ ParseRecord
       \/ Finalize
       \/ \E i \in 1..MaxRecords : Open(i)
       \/ \E n \in ReadSizes : Read(n)
    /\ UNCHANGED <<besideAr, indexVars>>

SpecAR == InitAR /\ [][NextAR]_vars

-----------------------------------------------------------------------------
(* Properties of the AR mount source.                                      *)

\* The templates of the members (the records that are not a table), in
\* archive order, and the content a member was written with.
MemberTemplates(recs) == SelectSeq(recs, LAMBDA r : ~IsSpecialName(r.name))

\* The name field of the header at stream offset h, without its padding.
HeaderNameAt(h) == RStrip(SubSeq(stream, h + 1, h + 16), {SP, NUL})

\* N of a header name #1/N, 0 for every other name.
BsdNameLength(name) ==
    IF StartsWith(name, BSD_LONG_NAME_PREFIX) THEN IntOf(SubSeq(name, 4, Len(name)), 10) ELSE 0

MemberContent(rec) == SubSeq(rec.body, BsdNameLength(rec.name) + 1, Len(rec.body))

\* C1: a member of a regular archive, opened and read to the end, yields
\* exactly the size bytes of the stream in [data_offset, data_offset + size),
\* which are the content the member was written with.
C1_ReadReturnsMemberContent ==
    (pc = "ready" /\ ~is_thin /\ result.status = "data" /\ result.n = -1 /\ result.at = 0) =>
        LET row == rows[reader.row]
        IN  /\ Len(result.data) = row.size
            /\ \A k \in 1..row.size : result.data[k] = stream[row.offset + k]
            /\ result.data = MemberContent(MemberTemplates(input.recs)[reader.row])

C3_ThinMembersAreSymlinks ==
    (pc = "ready" /\ is_thin) =>
        /\ \A i \in 1..Len(rows) : S_ISLNK(rows[i].mode)
        /\ reader.status \in {"none", "RatarmountError"}

\* The bytes of table from byte offset k up to the next "/" newline.
RECURSIVE TableNameAt(_, _)
TableNameAt(table, k) ==
    IF table[k + 1] = "/" /\ table[k + 2] = NL THEN <<>>
    ELSE <<table[k + 1]>> \o TableNameAt(table, k + 1)

HasTableNameAt(table, k) ==
    \E e \in k..(Len(table) - 2) : table[e + 1] = "/" /\ table[e + 2] = NL

\* k of a header name /<k>, -1 for every other name.
TableReference(name) ==
    IF Len(name) >= 2 /\ name[1] = "/" /\ \A j \in 2..Len(name) : name[j] \in Digits
    THEN IntOf(Tail(name), 10) ELSE -1

\* C4: in a thin archive the link target of a member /<k> is the name that
\* the long-name table holds at byte offset k, whether the table precedes the
\* member or follows it, and the member keeps its name /<k>.
C4_ThinLinkNameFromTable ==
    (is_thin /\ pc \in {"headers", "parsed", "ready"} /\ long_names.kind = "bytes") =>
        /\ \A i \in 1..Len(files) :
               LET k == TableReference(HeaderNameAt(files[i].offset))
               IN  (k >= 0 /\ HasTableNameAt(long_names.v, k)) =>
                       /\ files[i].linkname = TableNameAt(long_names.v, k)
                       /\ files[i].name = HeaderNameAt(files[i].offset)
        /\ \A i \in 1..Len(rows) :
               LET k == TableReference(HeaderNameAt(rows[i].offsetheader))
               IN  (k >= 0 /\ HasTableNameAt(long_names.v, k)) =>
                       /\ rows[i].linkname = TableNameAt(long_names.v, k)
                       /\ <<"/">> \o rows[i].name = HeaderNameAt(rows[i].offsetheader)

\* A member /4 whose link target was set by the table that follows it.
C4_Witness ==
    /\ pc = "ready"
    /\ is_thin
    /\ Len(rows) = 1
    /\ rows[1].name = <<"4">>
    /\ rows[1].linkname = <<"m", "n">>
    /\ rows[1].offsetheader = MAGIC_SIZE
    /\ Len(input.recs) = 2
    /\ input.recs[2].name = GNU_INDEX_NAME

\* What is wrong with the archive as it was written: the magic, a header
\* terminator, a numeric field, a last header that is cut short, or a BSD
\* long name that is cut short.
BadField(field, base) ==
    \E i \in 1..Len(field) : field[i] \notin {d \in Digits : DigitVal(d) < base}

RecordDefect(rec) ==
    \/ rec.term # HEADER_END
    \/ BadField(rec.mtime, 10)
    \/ BadField(rec.mode, 8)
    \/ BadField(rec.size, 10)

WrittenLength(rec, thin) == Len(WriteRecord(rec, thin))

TruncationDefect(in) ==
    /\ in.cut > 0
    /\ \/ in.recs = <<>>
       \/ LET last == in.recs[Len(in.recs)]
              left == WrittenLength(last, in.magic = THIN_MAGIC) - in.cut
          IN  \/ left < HEADER_SIZE
              \/ left < HEADER_SIZE + BsdNameLength(last.name)

HasDefect(in) ==
    \/ in.magic \notin {ARCH_MAGIC, THIN_MAGIC}
    \/ \E i \in 1..Len(in.recs) : RecordDefect(in.recs[i])
    \/ TruncationDefect(in)

\* C5: the construction of the mount source fails for an archive with an
\* invalid magic, a cut or malformed header, an unparseable numeric field or
\* a cut BSD long name, and a failed construction installs no row.
C5_FormatErrorInstallsNothing ==
    /\ HasDefect(input) => pc \in {"magic", "headers", "failed"}
    /\ pc # "ready" => rows = <<>>

\* The construction fails on the second record, after a member was parsed.
C5_Witness == pc = "failed" /\ Len(files) = 1 /\ rows = <<>> /\ HasDefect(input)

-----------------------------------------------------------------------------
(* Text: characters, their code points and their encodings.                *)

\* The one character of the model outside ASCII, U+00E9.
EACUTE == "EACUTE"

\* The printable ASCII characters, from code point 32 on.
Ascii ==
    <<" ", "!", "\"", "#", "$", "%", "&", "'", "(", ")", "*", "+", ",", "-", ".", "/",
      "0", "1", "2", "3", "4", "5", "6", "7", "8", "9", ":", ";", "<", "=", ">", "?",
      "@", "A", "B", "C", "D", "E", "F", "G", "H", "I", "J", "K", "L", "M", "N", "O",
      "P", "Q", "R", "S", "T", "U", "V", "W", "X", "Y", "Z", "[", "\\", "]", "^", "_",
      GRAVE, "a", "b", "c", "d", "e", "f", "g", "h", "i", "j", "k", "l", "m", "n", "o",
      "p", "q", "r", "s", "t", "u", "v", "w", "x", "y", "z", "{", "|", "}", "~">>

\* ord(c)
CodePoints ==
    [c \in {Ascii[i] : i \in 1..Len(Ascii)} \cup {NL, EACUTE} |->
        IF c = NL THEN 10
        ELSE IF c = EACUTE THEN 233
        ELSE 31 + CHOOSE i \in 1..Len(Ascii) : Ascii[i] = c]

Ord(c) == CodePoints[c]

\* chr(n) for a code point of the model.
Chr(n) == IF n = 10 THEN NL ELSE IF n = 233 THEN EACUTE ELSE Ascii[n - 31]

IsAscii(c) == Ord(c) < 128

IsUpper(c) == Ord(c) >= 65 /\ Ord(c) <= 90
IsLetter(c) == IsUpper(c) \/ (Ord(c) >= 97 /\ Ord(c) <= 122)
IsSpace(c) == c \in {SP, NL}

\* str.lower()
Lower(s) == [i \in 1..Len(s) |-> IF IsUpper(s[i]) THEN Chr(Ord(s[i]) + 32) ELSE s[i]]

HexDigits == Digits \cup {"A", "B", "C", "D", "E", "F", "a", "b", "c", "d", "e", "f"}

HexVal(c) ==
    IF c \in Digits THEN DigitVal(c)
    ELSE IF IsUpper(c) THEN Ord(c) - 55 ELSE Ord(c) - 87

\* html.unescape for the references of the model: a decimal character
\* reference &#<digits>; and &amp;.
RECURSIVE unescape(_)
unescape(s) ==
    LET Reference(amp, rest, semi) ==
            IF StartsWith(rest, <<"&", "#">>) /\ semi > 2 /\ IsDigits(Slice(rest, 2, semi))
            THEN Slice(s, 0, amp) \o <<Chr(IntOf(Slice(rest, 2, semi), 10))>>
                     \o unescape(Slice(rest, semi + 1, Len(rest)))
            ELSE IF StartsWith(rest, <<"&", "a", "m", "p", ";">>)
            THEN Slice(s, 0, amp + 1) \o unescape(Slice(rest, 5, Len(rest)))
            ELSE Slice(s, 0, amp + 1) \o unescape(Slice(rest, 1, Len(rest)))
        From(amp, rest) == Reference(amp, rest, Find(rest, <<";">>, 2))
        At(amp) == IF amp < 0 THEN s ELSE From(amp, Slice(s, amp, Len(s)))
    IN  At(Find(s, <<"&">>, 0))

\* urllib.parse.unquote: %XX becomes the character with that code (the
\* escapes of the model are ASCII).
RECURSIVE unquote(_)
unquote(s) ==
    LET Escape(percent, rest, code) ==
            IF code \in 32..126
            THEN Slice(s, 0, percent) \o <<Chr(code)>> \o unquote(Slice(rest, 3, Len(rest)))
            ELSE Slice(s, 0, percent + 1) \o unquote(Slice(rest, 1, Len(rest)))
        From(percent, rest) ==
            Escape(percent, rest,
                   IF Len(rest) >= 3 /\ rest[2] \in HexDigits /\ rest[3] \in HexDigits
                   THEN 16 * HexVal(rest[2]) + HexVal(rest[3]) ELSE -1)
        At(percent) == IF percent < 0 THEN s ELSE From(percent, Slice(s, percent, Len(s)))
    IN  At(Find(s, <<"%">>, 0))

\* The bytes of one character in UTF-8.
Utf8Bytes(c) == IF IsAscii(c) THEN <<Ord(c)>> ELSE <<192 + (Ord(c) \div 64), 128 + (Ord(c) % 64)>>

\* Number of bytes a character takes in the encoding of the document (UTF-8).
ByteWidth(c) == Len(Utf8Bytes(c))

\* str.encode(encoding): the bytes, or the UnicodeEncodeError.
Encoded(bytes) == [ok |-> TRUE, v |-> bytes]
EncodeError == [ok |-> FALSE, v |-> <<>>]

encode(s, encoding) ==
    IF encoding \in {"utf8", "utf-8"} THEN Encoded(Concat([i \in 1..Len(s) |-> Utf8Bytes(s[i])]))
    ELSE IF encoding = "ascii" /\ \E i \in 1..Len(s) : ~IsAscii(s[i]) THEN EncodeError
    ELSE Encoded([i \in 1..Len(s) |-> Ord(s[i])])

Base64Alphabet ==
    <<"A", "B", "C", "D", "E", "F", "G", "H", "I", "J", "K", "L", "M", "N", "O", "P",
      "Q", "R", "S", "T", "U", "V", "W", "X", "Y", "Z", "a", "b", "c", "d", "e", "f",
      "g", "h", "i", "j", "k", "l", "m", "n", "o", "p", "q", "r", "s", "t", "u", "v",
      "w", "x", "y", "z", "0", "1", "2", "3", "4", "5", "6", "7", "8", "9", "+", "/">>

IsBase64Char(c) == \E i \in 1..Len(Base64Alphabet) : Base64Alphabet[i] = c
Base64Value(c) == (CHOOSE i \in 1..Len(Base64Alphabet) : Base64Alphabet[i] = c) - 1

\* binascii.a2b_base64 without strict mode: characters outside the alphabet
\* are skipped, decoding stops at a complete padding, and an incomplete last
\* group is an error.  quad is the position in the group of four, left the
\* bits carried over, pads the padding characters seen, out the bytes so far.
RECURSIVE a2b_base64(_, _, _, _, _)
a2b_base64(s, quad, left, pads, out) ==
    IF s = <<>> THEN (IF quad # 0 THEN EncodeError ELSE Encoded(out))
    ELSE LET c == Head(s)
         IN  IF c = "="
             THEN IF quad >= 2 /\ quad + pads + 1 >= 4 THEN Encoded(out)
                  ELSE a2b_base64(Tail(s), quad, left, IF quad >= 2 THEN pads + 1 ELSE pads, out)
             ELSE IF ~IsBase64Char(c) THEN a2b_base64(Tail(s), quad, left, pads, out)
             ELSE LET v == Base64Value(c)
                  IN  IF quad = 0 THEN a2b_base64(Tail(s), 1, v, 0, out)
                      ELSE IF quad = 1
                      THEN a2b_base64(Tail(s), 2, v % 16, 0, Append(out, left * 4 + (v \div 16)))
                      ELSE IF quad = 2
                      THEN a2b_base64(Tail(s), 3, v % 4, 0, Append(out, left * 16 + (v \div 4)))
                      ELSE a2b_base64(Tail(s), 0, 0, 0, Append(out, left * 64 + v))

\* base64.b64decode(str): a string with a character outside ASCII is a
\* ValueError, the rest is decoded by binascii.
b64decode(s) ==
    IF \E i \in 1..Len(s) : ~IsAscii(s[i]) THEN EncodeError ELSE a2b_base64(s, 0, 0, 0, <<>>)

-----------------------------------------------------------------------------
(* DataURLFile (html.py:238-289)                                           *)

DATA_SCHEME == <<"d", "a", "t", "a", ":">>
TEXT_PLAIN == <<"t", "e", "x", "t", "/", "p", "l", "a", "i", "n">>
BASE64_SUFFIX == <<";", "b", "a", "s", "e", "6", "4">>
CHARSET == <<"c", "h", "a", "r", "s", "e", "t">>

\* The characters that end the media type and a parameter: [^;,"']
Delimiters == {";", ",", "\"", "'"}

\* Length of the longest prefix of s without a character of the set.
RunLength(s, stop) ==
    LET stops == {i \in 1..Len(s) : s[i] \in stop}
    IN  IF stops = {} THEN Len(s) ELSE (CHOOSE i \in stops : \A j \in stops : i <= j) - 1

\* DATA_URL_MIME_TYPE matches the whole run: [^;,"']+/[^;,"']+
IsMimeType(run) == \E i \in 2..(Len(run) - 1) : run[i] = "/"

NoMatch == [matched |-> FALSE, mime_type |-> <<>>, parameters |-> <<>>, end |-> 0]

\* DATA_URL_REGEX.match(data): data:, an optional media type, parameters
\* (;[^;,"']*)* and the comma; end is the offset behind the comma.
DATA_URL_REGEX(data) ==
    LET Match(run, after, params) ==
            IF run # <<>> /\ ~IsMimeType(run) THEN NoMatch
            ELSE IF Len(params) = Len(after) \/ after[Len(params) + 1] # "," THEN NoMatch
            ELSE [matched |-> TRUE, mime_type |-> run, parameters |-> params,
                  end |-> Len(DATA_SCHEME) + Len(run) + Len(params) + 1]
        Parameters(run, after) == Match(run, after, SubSeq(after, 1, RunLength(after, {",", "\"", "'"})))
        MediaType(rest, run) == Parameters(run, Slice(rest, Len(run), Len(rest)))
        Scheme(rest) == MediaType(rest, SubSeq(rest, 1, RunLength(rest, Delimiters)))
    IN  IF ~StartsWith(data, DATA_SCHEME) THEN NoMatch
        ELSE Scheme(Slice(data, Len(DATA_SCHEME), Len(data)))

\* Line 266: parameters.endswith(';base64')
IsBase64(parameters) == EndsWith(parameters, BASE64_SUFFIX)

\* encodings.search_function(name).name for the names of the model; "" when
\* there is no such standard encoding.
StandardEncoding(name) ==
    IF name \in {<<"u", "t", "f", "-", "8">>, <<"u", "t", "f", "8">>} THEN "utf-8"
    ELSE IF name \in {<<"u", "s", "-", "a", "s", "c", "i", "i">>, <<"a", "s", "c", "i", "i">>} THEN "ascii"
    ELSE IF name = <<"l", "a", "t", "i", "n", "1">> THEN "iso8859-1"
    ELSE ""

Whitespace == {SP, NL}

Utf8EncodingMutant(encoding) == encoding

\* Line 272
Utf8Encoding(encoding) == "utf8"

\* Lines 270-285: the encoding after one parameter.
ApplyParameter(encoding, raw) ==
    LET Charset(value) ==
            IF StandardEncoding(value) # "" THEN StandardEncoding(value)
            ELSE IF value = <<"u", "s", "-", "a", "s", "c", "i", "i">> THEN "ascii"
            ELSE encoding
        KeyValue(parameter, eq) ==
            IF eq < 0 THEN encoding
            ELSE IF Strip(Slice(parameter, 0, eq), Whitespace) # CHARSET THEN encoding
            ELSE Charset(Strip(Slice(parameter, eq + 1, Len(parameter)), Whitespace))
        Parameter(parameter) ==
            IF parameter \in {<<"u", "t", "f", "-", "8">>, <<"u", "t", "f", "8">>} THEN Utf8Encoding(encoding)
            ELSE KeyValue(parameter, Find(parameter, <<"=">>, 0))
    IN  Parameter(Lower(Strip(raw, Whitespace)))

\* Lines 269-285: the loop over parameters.split(';').
RECURSIVE ApplyParameters(_, _)
ApplyParameters(encoding, parameters) ==
    IF parameters = <<>> THEN encoding
    ELSE ApplyParameters(ApplyParameter(encoding, Head(parameters)), Tail(parameters))

\* DataURLFile(data_url): the object, or the exception that the constructor
\* lets escape from base64.b64decode or str.encode.
DataURLFile(data_url) ==
    LET defaults == [NoUrlFile EXCEPT !.state = "ok", !.mime_type = TEXT_PLAIN, !.encoding = "ascii"]
        Decoded(match, is_base64, encoding, decoded) ==
            [defaults EXCEPT
                !.mime_type = IF match.mime_type # <<>> THEN match.mime_type ELSE @,
                !.is_base64 = is_base64,
                !.encoding = encoding,
                !.state = IF decoded.ok THEN "ok" ELSE "raised",
                !.content = decoded.v]
        Payload(match, is_base64, encoding, payload) ==
            Decoded(match, is_base64, encoding,
                    IF is_base64 THEN b64decode(payload) ELSE encode(payload, encoding))
        Matched(data, match) ==
            IF ~match.matched THEN defaults
            ELSE Payload(match,
                         match.parameters # <<>> /\ IsBase64(match.parameters),
                         IF match.parameters # <<>>
                         THEN ApplyParameters("ascii", Split(match.parameters, <<";">>))
                         ELSE "ascii",
                         Slice(data, match.end, Len(data)))
        Url(data) == Matched(data, DATA_URL_REGEX(data))
    IN  Url(unquote(unescape(data_url)))

\* The data URLs the decoder is run on: a scheme, a media type, parameters,
\* each behind a semicolon, and a comma with the payload.
MaxParameters == 2

Schemes == {DATA_SCHEME, <<"d", "a", "t", ":">>}

MediaTypes == {<<>>, <<"a", "/", "b">>, <<"a", "b">>}

ParameterTokens ==
    { <<"b", "a", "s", "e", "6", "4">>,
      <<"B", "a", "s", "e", "6", "4">>,
      <<SP, "b", "a", "s", "e", "6", "4">>,
      <<"u", "t", "f", "8">>,
      <<SP, "U", "T", "F", "-", "8">>,
      <<"c", "h", "a", "r", "s", "e", "t", "=", "l", "a", "t", "i", "n", "1">>,
      <<"C", "h", "a", "r", "s", "e", "t", SP, "=", SP, "U", "T", "F", "-", "8">>,
      <<"c", "h", "a", "r", "s", "e", "t", "=", "u", "t", "f", "9">>,
      <<"i", "d", "=", "M", "Q", "=", "-", "1">>,
      <<"n", "=", "'", "x", "'">>,
      <<>> }

Payloads ==
    { <<>>,
      <<",">>,
      <<",", "Q", "U", "J", "D">>,
      <<",", "Q", "U", "J", "D", "Q">>,
      <<",", "Q", "Q", "=", "=">>,
      <<",", "a", "&", "#", "3", "7", ";", "2", "0", "b">>,
      <<",", EACUTE>> }

ParameterSeqs == UNION {[1..n -> ParameterTokens] : n \in 0..MaxParameters}

WriteParameters(params) == Concat([i \in 1..Len(params) |-> <<";">> \o params[i]])

WriteUrl(in) == in.scheme \o in.mime \o WriteParameters(in.params) \o in.payload

Decode ==
    /\ urlFile.state = "none"
    /\ urlFile' = DataURLFile(url)
    /\ UNCHANGED <<urlInput, url>>

ArIdle ==
    /\ input = [magic |-> <<>>, recs |-> <<>>, cut |-> 0]
    /\ stream = <<>>
    /\ fpos = 0
    /\ is_thin = FALSE
    /\ long_names = None
    /\ files = <<>>
    /\ pc = "idle"
    /\ rows = <<>>
    /\ reader = NoReader
    /\ result = NoResult

InitURL ==
    /\ ArIdle
    /\ HtmlIdle
    /\ PathIdle
    /\ Unused
    /\ urlInput \in [scheme : Schemes, mime : MediaTypes, params : ParameterSeqs, payload : Payloads]
    /\ url = WriteUrl(urlInput)
    /\ urlFile = NoUrlFile

NextURL == Decode /\ UNCHANGED besideUrl

SpecURL == InitURL /\ [][NextURL]_vars

-----------------------------------------------------------------------------
(* Properties of DataURLFile                                               *)

TOKEN_BASE64 == <<"b", "a", "s", "e", "6", "4">>
TOKEN_QUOTED == <<"n", "=", "'", "x", "'">>
TOKEN_LATIN1 == <<"c", "h", "a", "r", "s", "e", "t", "=", "l", "a", "t", "i", "n", "1">>
TOKEN_CHARSET_UTF8 == <<"C", "h", "a", "r", "s", "e", "t", SP, "=", SP, "U", "T", "F", "-", "8">>
Utf8Tokens == {<<"u", "t", "f", "8">>, <<SP, "U", "T", "F", "-", "8">>}
Base64Tokens == {TOKEN_BASE64, <<"B", "a", "s", "e", "6", "4">>, <<SP, "b", "a", "s", "e", "6", "4">>}

\* The URL has the scheme, a media type with a slash or none, and the comma.
WellFormed(in) == in.scheme = DATA_SCHEME /\ in.mime # <<"a", "b">> /\ in.payload # <<>>

QuoteFree(in) == \A i \in 1..Len(in.params) : in.params[i] # TOKEN_QUOTED

\* The text behind the comma with its references and escapes resolved, and
\* what it is as base64, per payload of the model.
PayloadText(payload) ==
    IF payload = <<",", "a", "&", "#", "3", "7", ";", "2", "0", "b">> THEN <<"a", SP, "b">>
    ELSE Tail(payload)

PayloadBytes(payload) ==
    IF payload = <<",", "Q", "U", "J", "D">> THEN <<65, 66, 67>>
    ELSE IF payload = <<",", "Q", "Q", "=", "=">> THEN <<65>>
    ELSE <<>>

IsBase64Payload(payload) ==
    payload \in {<<",">>, <<",", "Q", "U", "J", "D">>, <<",", "Q", "Q", "=", "=">>}

\* The encoding the parameters select: the last parameter that names one.
RECURSIVE ResolvedEncoding(_, _, _)
ResolvedEncoding(params, table, encoding) ==
    IF params = <<>> THEN encoding
    ELSE ResolvedEncoding(Tail(params), table,
                          IF table[Head(params)] # "" THEN table[Head(params)] ELSE encoding)

\* C8: the decoder never raises: DataURLFile of any string is an object,
\* with an empty stream when the string is not a decodable data URL.
C8_DecoderNeverRaises ==
    urlFile.state # "none" =>
        /\ urlFile.state = "ok"
        /\ (~WellFormed(urlInput) => urlFile.content = <<>>)

\* C9: is_base64 is set exactly when the last parameter, trimmed and
\* compared without case, is base64; the payload is then base64-decoded.
C9_Base64FlagFromLastToken ==
    (urlFile.state # "none" /\ WellFormed(urlInput) /\ QuoteFree(urlInput)) =>
        LET params == urlInput.params
            last_is_base64 == params # <<>> /\ params[Len(params)] \in Base64Tokens
        IN  /\ urlFile.is_base64 = last_is_base64
            /\ (urlFile.state = "ok" /\ urlFile.is_base64 /\ IsBase64Payload(urlInput.payload))
                   => urlFile.content = PayloadBytes(urlInput.payload)

ClaimedEncodings ==
    [t \in ParameterTokens |->
        IF t \in Utf8Tokens \/ t = TOKEN_CHARSET_UTF8 THEN "utf-8"
        ELSE IF t = TOKEN_LATIN1 THEN "iso8859-1"
        ELSE ""]

\* C10 as stated: the defaults without parameters, utf-8 or utf8 selects
\* "utf-8", charset= selects the named standard encoding, every other
\* parameter is ignored and never causes rejection.
C10_ParametersResolveEncoding ==
    (urlFile.state = "ok" /\ WellFormed(urlInput)) =>
        /\ urlFile.mime_type = (IF urlInput.mime = <<>> THEN TEXT_PLAIN ELSE urlInput.mime)
        /\ urlFile.encoding = ResolvedEncoding(urlInput.params, ClaimedEncodings, "ascii")
        /\ (urlInput.params = <<>> => ~urlFile.is_base64)

SelectedEncodings ==
    [t \in ParameterTokens |->
        IF t \in Utf8Tokens THEN "utf8"
        ELSE IF t = TOKEN_CHARSET_UTF8 THEN "utf-8"
        ELSE IF t = TOKEN_LATIN1 THEN "iso8859-1"
        ELSE ""]

\* C10 amended: the defaults without parameters; utf-8 or utf8 selects the
\* encoding named "utf8", charset= the standard encoding of that name and
\* nothing when there is none; other parameters are ignored unless one holds
\* a quote character, which leaves the URL unmatched: the defaults and an
\* empty stream.
C10_EncodingFromParameters ==
    urlFile.state = "ok" =>
        IF WellFormed(urlInput) /\ QuoteFree(urlInput)
        THEN /\ urlFile.mime_type = (IF urlInput.mime = <<>> THEN TEXT_PLAIN ELSE urlInput.mime)
             /\ urlFile.encoding = ResolvedEncoding(urlInput.params, SelectedEncodings, "ascii")
             /\ (urlInput.params = <<>> => ~urlFile.is_base64)
             /\ ~urlFile.is_base64 =>
                    urlFile.content = encode(PayloadText(urlInput.payload), urlFile.encoding).v
        ELSE /\ urlFile.mime_type = TEXT_PLAIN
             /\ urlFile.encoding = "ascii"
             /\ ~urlFile.is_base64
             /\ urlFile.content = <<>>

\* A charset parameter overridden by a later utf8 token, the payload one
\* character outside ASCII.
C10_Witness ==
    /\ urlFile.state = "ok"
    /\ urlInput.scheme = DATA_SCHEME
    /\ urlInput.params = <<TOKEN_LATIN1, <<"u", "t", "f", "8">> >>
    /\ urlInput.payload = <<",", EACUTE>>
    /\ urlFile.encoding = "utf8"
    /\ urlFile.content = <<195, 169>>

-----------------------------------------------------------------------------
(* HTML documents: segments, their text and the events of html.parser      *)

URL_TEXT == <<"d", "a", "t", "a", ":", ",", "x">>
URL_BASE64 == <<"d", "a", "t", "a", ":", "a", "/", "b", ";", "b", "a", "s", "e", "6", "4", ",", "Q", "Q", "=", "=">>
URL_UTF8 == <<"d", "a", "t", "a", ":", ";", "u", "t", "f", "8", ",", EACUTE>>
URL_NON_ASCII == <<"d", "a", "t", "a", ":", ",", EACUTE>>
URL_NO_PAYLOAD == <<"d", "a", "t", "a", ":", "a", "/", "b", ",">>

\* An attribute as written: quote is "\"", "'", "" (unquoted value) or
\* "none" (a name without a value).
Attr(name, quote, value) == [name |-> name, quote |-> quote, value |-> value]

Text(text) == [kind |-> "text", tag |-> <<>>, attrs |-> <<>>, text |-> text]
StartTag(tag, attrs) == [kind |-> "start", tag |-> tag, attrs |-> attrs, text |-> <<>>]
EndTag(tag) == [kind |-> "end", tag |-> tag, attrs |-> <<>>, text |-> <<>>]
Decl(text) == [kind |-> "decl", tag |-> <<>>, attrs |-> <<>>, text |-> text]
Comment(text) == [kind |-> "comment", tag |-> <<>>, attrs |-> <<>>, text |-> text]
\* A style element with its content: <style>text</style>
Style(text) == [kind |-> "style", tag |-> <<"s", "t", "y", "l", "e">>, attrs |-> <<>>, text |-> text]

SRC == <<"s", "r", "c">>
IMG == <<"i", "m", "g">>

SegmentTemplates ==
    { Text(<<EACUTE, NL>>),
      Text(<<"a", "&", "a", "m", "p", ";", "b">>),
      Text(<<"/", "*", "s", "a", "v", "e", "p", "a", "g", "e", "-", "u", "r", "l", "=", "/", "f", "*", "/", "u", "r", "l", "(">> \o URL_TEXT \o <<")">>),
      Text(<<"\"">> \o URL_TEXT \o <<"\"">>),
      StartTag(IMG, <<Attr(SRC, "\"", URL_TEXT)>>),
      StartTag(<<"I", "M", "G">>, <<Attr(<<"S", "R", "C">>, "\"", URL_BASE64)>>),
      StartTag(IMG, <<Attr(<<"d", "a", "t", "a", "-", "s", "a", "v", "e", "p", "a", "g", "e", "-", "s", "r", "c">>, "\"", <<"/", "o", ".", "p", "n", "g">>), Attr(SRC, "'", URL_BASE64)>>),
      StartTag(IMG, <<Attr(SRC, "", URL_TEXT)>>),
      StartTag(IMG, <<Attr(SRC, "\"", URL_UTF8)>>),
      StartTag(IMG, <<Attr(SRC, "\"", URL_NON_ASCII)>>),
      StartTag(IMG, <<Attr(SRC, "\"", <<"y">>), Attr(SRC, "\"", URL_TEXT)>>),
      StartTag(<<"a">>, <<Attr(<<"h", "r", "e", "f">>, "\"", URL_NO_PAYLOAD)>>),
      StartTag(<<"a">>, <<Attr(<<"h", "r", "e", "f">>, "\"", <<"x">>)>>),
      StartTag(<<"p">>, <<Attr(<<"h", "i", "d", "d", "e", "n">>, "none", <<>>)>>),
      EndTag(<<"p">>),
      Decl(<<"D", "O", "C", "T", "Y", "P", "E", SP, "h", "t", "m", "l">>),
      Comment(<<"c">>),
      Style(<<"p", "{", "b", "a", "c", "k", "g", "r", "o", "u", "n", "d", ":", "u", "r", "l", "(">> \o URL_BASE64 \o <<")", "}">>) }

MaxSegments == 2

SegmentSeqs == UNION {[1..n -> SegmentTemplates] : n \in 0..MaxSegments}

WriteAttr(attr) ==
    <<SP>> \o attr.name \o
    (IF attr.quote = "none" THEN <<>>
     ELSE IF attr.quote = "" THEN <<"=">> \o attr.value
     ELSE <<"=", attr.quote>> \o attr.value \o <<attr.quote>>)

WriteSegment(seg) ==
    CASE seg.kind = "text" -> seg.text
      [] seg.kind = "start" ->
            <<"<">> \o seg.tag \o Concat([i \in 1..Len(seg.attrs) |-> WriteAttr(seg.attrs[i])]) \o <<">">>
      [] seg.kind = "end" -> <<"<", "/">> \o seg.tag \o <<">">>
      [] seg.kind = "decl" -> <<"<", "!">> \o seg.text \o <<">">>
      [] seg.kind = "comment" -> <<"<", "!", "-", "-">> \o seg.text \o <<"-", "-", ">">>
      [] seg.kind = "style" -> <<"<", "s", "t", "y", "l", "e", ">">> \o seg.text \o <<"<", "/", "s", "t", "y", "l", "e", ">">>

WriteDocument(segs) == Concat([i \in 1..Len(segs) |-> WriteSegment(segs[i])])

\* html.parser hands adjacent text to handle_data in one call.
RECURSIVE MergeText(_)
MergeText(segs) ==
    IF Len(segs) < 2 THEN segs
    ELSE IF segs[1].kind = "text" /\ segs[2].kind = "text"
         THEN MergeText(<<Text(segs[1].text \o segs[2].text)>> \o Tail(Tail(segs)))
         ELSE <<Head(segs)>> \o MergeText(Tail(segs))

\* The attributes as html.parser passes them: the name in lower case, the
\* value with its character references resolved, None without a value.
TokenizeAttrs(attrs) ==
    [i \in 1..Len(attrs) |->
        [name |-> Lower(attrs[i].name), value |-> unescape(attrs[i].value),
         none |-> attrs[i].quote = "none"]]

Event(kind, pos, tag, attrs, data) ==
    [kind |-> kind, pos |-> pos, tag |-> tag, attrs |-> attrs, data |-> data]

\* The handler calls html.parser makes for one segment that starts at the
\* character offset pos (convert_charrefs=True: text comes with its
\* references resolved, the content of a style element as it is written).
SegmentEvents(seg, pos) ==
    CASE seg.kind = "text" -> <<Event("data", pos, <<>>, <<>>, unescape(seg.text))>>
      [] seg.kind = "start" -> <<Event("starttag", pos, Lower(seg.tag), TokenizeAttrs(seg.attrs), <<>>)>>
      [] seg.kind = "end" -> <<Event("endtag", pos, Lower(seg.tag), <<>>, <<>>)>>
      [] seg.kind = "decl" -> <<Event("decl", pos, <<>>, <<>>, seg.text)>>
      [] seg.kind = "comment" -> <<Event("comment", pos, <<>>, <<>>, seg.text)>>
      [] seg.kind = "style" ->
            <<Event("starttag", pos, seg.tag, <<>>, <<>>),
              Event("data", pos + 7, <<>>, <<>>, seg.text),
              Event("endtag", pos + 7 + Len(seg.text), seg.tag, <<>>, <<>>)>>

RECURSIVE Events(_, _)
Events(segs, pos) ==
    IF segs = <<>> THEN <<>>
    ELSE SegmentEvents(Head(segs), pos) \o Events(Tail(segs), pos + Len(WriteSegment(Head(segs))))

\* HTMLParser.feed(document): the handler calls in order.
feed(segs) == Events(MergeText(segs), 0)

LineOffset(line, offset) == [line |-> line, offset |-> offset]

\* HTMLParser.getpos() while the token at the character offset pos is
\* handled: the line, counted from 1, and the offset within the line.
getpos(doc, pos) ==
    LET newlines == {i \in 1..pos : doc[i] = NL}
    IN  LineOffset(1 + Cardinality(newlines),
                   pos - (IF newlines = {} THEN 0 ELSE CHOOSE i \in newlines : \A j \in newlines : j <= i))

-----------------------------------------------------------------------------
(* HTMLDataURLParser (html.py:130-235)                                     *)

NoLineOffset == LineOffset(0, 0)

EmbeddedFileCandidate(original_url, attribute, start, next) ==
    [original_url |-> original_url, attribute |-> attribute, start |-> start, next |-> next]

\* _update_end_offset with getpos() = position.
_update_end_offset(candidates, position) ==
    IF candidates = <<>> THEN candidates
    ELSE LET file == candidates[Len(candidates)]
         IN  IF file.next # NoLineOffset \/ position = file.start THEN candidates
             ELSE [candidates EXCEPT ![Len(candidates)].next = position]

IsDataValue(attr) == StartsWith(attr.value, DATA_SCHEME)

\* dict(attrs): one item per name, at the place of its first occurrence and
\* with the value of its last.
DictItems(attrs) ==
    LET first == {i \in 1..Len(attrs) : \A j \in 1..(i - 1) : attrs[j].name # attrs[i].name}
        last(i) == CHOOSE j \in i..Len(attrs) :
                       /\ attrs[j].name = attrs[i].name
                       /\ \A k \in (j + 1)..Len(attrs) : attrs[k].name # attrs[i].name
        RECURSIVE items(_)
        items(i) == IF i > Len(attrs) THEN <<>>
                    ELSE (IF i \in first THEN <<attrs[last(i)]>> ELSE <<>>) \o items(i + 1)
    IN  items(1)

\* attributes.get(name, "")
DictGet(items, name) ==
    IF \E i \in 1..Len(items) : items[i].name = name
    THEN (CHOOSE a \in {items[i] : i \in 1..Len(items)} : a.name = name).value
    ELSE <<>>

\* Lines 153-154: any(v.startswith('data:') ...) stops at the first data
\* value; a None before it is an AttributeError.
AnyRaises(attrs) ==
    \E i \in 1..Len(attrs) : attrs[i].none /\ \A j \in 1..(i - 1) : ~IsDataValue(attrs[j])

\* Lines 161-164
HasPayload(value) ==
    LET comma == Find(value, <<",">>, 0)
    IN  ~(comma < 0 \/ comma + 1 >= Len(value))

DATA_SAVEPAGE == <<"d", "a", "t", "a", "-", "s", "a", "v", "e", "p", "a", "g", "e", "-">>

\* Lines 157-172: the candidates of one start tag.
StartTagCandidates(items, position) ==
    LET RECURSIVE loop(_)
        loop(i) ==
            IF i > Len(items) THEN <<>>
            ELSE (IF IsDataValue(items[i]) /\ HasPayload(items[i].value)
                  THEN <<EmbeddedFileCandidate(DictGet(items, DATA_SAVEPAGE \o items[i].name),
                                               items[i].name, position, NoLineOffset)>>
                  ELSE <<>>) \o loop(i + 1)
    IN  loop(1)

Parsed(candidates) == [error |-> "None", files |-> candidates]
ParserError(error) == [error |-> error, files |-> <<>>]

handle_starttag(candidates, attrs, position) ==
    LET updated == _update_end_offset(candidates, position)
        items == DictItems(attrs)
    IN  IF AnyRaises(attrs) THEN ParserError("AttributeError")
        ELSE IF ~\E i \in 1..Len(attrs) : IsDataValue(attrs[i]) THEN Parsed(updated)
        ELSE IF \E i \in 1..Len(items) : items[i].none THEN ParserError("AttributeError")
        ELSE Parsed(updated \o StartTagCandidates(items, position))

SAVEPAGE_URL == <<"/", "*", "s", "a", "v", "e", "p", "a", "g", "e", "-", "u", "r", "l", "=">>
URL_OPEN == <<"u", "r", "l", "(">>

NoCssMatch == [matched |-> FALSE, original_url |-> <<>>, start |-> 0, end |-> 0, stop |-> 0]

\* DATA_URL_PREFIX + (?P<data>[^close]+)) + close at the offset p of data.
DataUrlAt(data, p, close) ==
    LET Closed(rest, end) ==
            IF end < Len(rest) /\ rest[end + 1] = close
            THEN [matched |-> TRUE, original_url |-> <<>>, start |-> p, end |-> p + end, stop |-> p + end + 1]
            ELSE NoCssMatch
        Payload(rest, prefix, payload) ==
            IF prefix.matched /\ payload > 0 THEN Closed(rest, prefix.end + payload) ELSE NoCssMatch
        Prefix(rest, prefix) == Payload(rest, prefix, RunLength(Slice(rest, prefix.end, Len(rest)), {close}))
        Rest(rest) == Prefix(rest, DATA_URL_REGEX(rest))
    IN  Rest(Slice(data, p, Len(data)))

\* url[(] ... [)] at the offset p.
CssUrlAt(data, p) ==
    IF StartsWith(Slice(data, p, Len(data)), URL_OPEN) THEN DataUrlAt(data, p + Len(URL_OPEN), ")")
    ELSE NoCssMatch

\* DATA_URL_IN_CSS at the offset p: with the savepage comment, else without.
DATA_URL_IN_CSS(data, p) ==
    LET Commented(plain, body, with) ==
            IF Slice(data, body - 2, body) = <<"*", "/">> /\ with.matched
            THEN [with EXCEPT !.original_url = Slice(data, p + Len(SAVEPAGE_URL), body - 2)]
            ELSE plain
        Body(plain, body) == Commented(plain, body, CssUrlAt(data, body))
        Named(plain, name) == IF name > 0 THEN Body(plain, p + Len(SAVEPAGE_URL) + name + 2) ELSE plain
        Rest(plain, rest) ==
            IF StartsWith(rest, SAVEPAGE_URL)
            THEN Named(plain, RunLength(Slice(rest, Len(SAVEPAGE_URL), Len(rest)), {"*"}))
            ELSE plain
    IN  Rest(CssUrlAt(data, p), Slice(data, p, Len(data)))

\* DATA_URL_IN_CSS.finditer(data) from the offset p on.
RECURSIVE CssMatches(_, _)
CssMatches(data, p) ==
    LET First(match) == <<match>> \o CssMatches(data, match.stop)
        Starts(starts) ==
            IF starts = {} THEN <<>>
            ELSE First(DATA_URL_IN_CSS(data, CHOOSE q \in starts : \A r \in starts : q <= r))
    IN  Starts({q \in p..(Len(data) - 1) : DATA_URL_IN_CSS(data, q).matched})

\* DATA_URL_SINGLE_QUOTE or DATA_URL_DOUBLE_QUOTE finds something in data.
QuotedUrlFound(data, quote) ==
    \E p \in 0..(Len(data) - 1) : data[p + 1] = quote /\ DataUrlAt(data, p + 1, quote).matched

\* Lines 186-206; the patterns of the quoted URLs have no group
\* original_url, a match of one of them is an IndexError.
handle_data(candidates, data, position) ==
    LET Candidates(matches) ==
            [i \in 1..Len(matches) |->
                EmbeddedFileCandidate(matches[i].original_url, <<>>,
                    LineOffset(position.line, position.offset + matches[i].start),
                    LineOffset(position.line, position.offset + matches[i].end))]
    IN  IF QuotedUrlFound(data, "'") \/ QuotedUrlFound(data, "\"") THEN ParserError("IndexError")
        ELSE Parsed(_update_end_offset(candidates, position) \o Candidates(CssMatches(data, 0)))

handle_endtag(candidates, position) == Parsed(_update_end_offset(candidates, position))

handle_decl(candidates, position) == Parsed(_update_end_offset(candidates, position))

-----------------------------------------------------------------------------
(* gather_embedded_files and HTMLMountSource (html.py:292-513)             *)

NameCharacters == {c \in {Ascii[i] : i \in 1..Len(Ascii)} : IsLetter(c) \/ c \in Digits \/ c \in {".", "-"}}

\* Length of the longest prefix of s made of the characters of the set.
SpanLength(s, chars) ==
    LET stops == {i \in 1..Len(s) : s[i] \notin chars}
    IN  IF stops = {} THEN Len(s) ELSE (CHOOSE i \in stops : \A j \in stops : i <= j) - 1

\* Length of a match of HTML_NAME_PATTERN at the start of s, 0 without one.
HTML_NAME_PATTERN(s) == IF s # <<>> /\ IsLetter(Head(s)) THEN SpanLength(s, NameCharacters) ELSE 0

\* Length of the match of HTML_ATTRIBUTE_VALUE_PATTERN at the start of s: a
\* quoted literal with its quotes, else a name token, which may be empty.
HTML_ATTRIBUTE_VALUE_PATTERN(s) ==
    IF s # <<>> /\ Head(s) \in {"'", "\""} /\ Find(s, <<Head(s)>>, 1) >= 0
    THEN Find(s, <<Head(s)>>, 1) + 1
    ELSE SpanLength(s, NameCharacters)

\* HTML_ATTRIBUTE_REGEX.match(data, position); value is span('value'),
\* (-1, -1) when the attribute has no value part.
HTML_ATTRIBUTE_REGEX(data, position) ==
    LET Match(name_start, name_end, has_value, value_start, value_end) ==
            [matched |-> name_start > position /\ name_end > name_start,
             attribute |-> Slice(data, name_start, name_end),
             value |-> IF has_value THEN <<value_start, value_end>> ELSE <<-1, -1>>,
             end |-> IF has_value THEN value_end ELSE name_end]
        Spaces(p) == p + SpanLength(Slice(data, p, Len(data)), Whitespace)
        Valued(name_start, name_end, value_start) ==
            Match(name_start, name_end, TRUE, value_start,
                  value_start + HTML_ATTRIBUTE_VALUE_PATTERN(Slice(data, value_start, Len(data))))
        Equals(name_start, name_end, eq) ==
            IF eq < Len(data) /\ data[eq + 1] = "=" THEN Valued(name_start, name_end, Spaces(eq + 1))
            ELSE Match(name_start, name_end, FALSE, -1, -1)
        Named(name_start, name_end) == Equals(name_start, name_end, Spaces(name_end))
        Space(name_start) == Named(name_start, name_start + HTML_NAME_PATTERN(Slice(data, name_start, Len(data))))
    IN  Space(Spaces(position))

\* Line 337
AttributeNameMatches(found, attribute) == found = attribute

\* Lines 335-341
RECURSIVE AttributeSpan(_, _, _)
AttributeSpan(data, position, attribute) ==
    LET Unquoted(span) ==
            IF span[1] >= 0 /\ data[span[1] + 1] \in {"'", "\""} THEN <<span[1] + 1, span[2] - 1>> ELSE span
        Match(match) ==
            IF ~match.matched THEN <<0, 0>>
            ELSE IF AttributeNameMatches(match.attribute, attribute) THEN Unquoted(match.value)
            ELSE AttributeSpan(data, match.end, attribute)
    IN  Match(HTML_ATTRIBUTE_REGEX(data, position))

_find_tag_attribute_spans(data, attribute) ==
    LET Tag(name) ==
            IF Len(data) >= 2 /\ data[1] = "<" /\ name > 0 THEN AttributeSpan(data, 1 + name, attribute)
            ELSE <<0, 0>>
    IN  Tag(HTML_NAME_PATTERN(Slice(data, 1, Len(data))))

\* tell() that takes the number of characters read for the position.
tellMutant(doc, chars) == chars

\* The text stream of the document, UTF-8: tell() after the first chars
\* characters were read, and the character a seek(offset) lands on.
tell(doc, chars) == Len(Concat([i \in 1..Len(Slice(doc, 0, chars)) |-> Utf8Bytes(doc[i])]))
seek(doc, offset) == CHOOSE c \in 0..Len(doc) : tell(doc, c) = offset

\* seek(offset) and read(size): size counts characters.
ReadAt(doc, offset, size) ==
    LET From(position) == Slice(doc, position, position + size)
    IN  From(seek(doc, offset))

\* Lines 355-364: the character offset of every line start.
lineOffsets(doc) ==
    LET starts == {0} \cup {i \in 1..Len(doc) : doc[i] = NL}
        RECURSIVE sorted(_)
        sorted(s) == IF s = {} THEN <<>>
                     ELSE LET least == CHOOSE x \in s : \A y \in s : x <= y
                          IN  <<least>> \o sorted(s \ {least})
    IN  sorted(starts)

to_char_offset(doc, line_offset) == lineOffsets(doc)[line_offset.line] + line_offset.offset

\* The character offset of the end of a candidate (lines 384 and 399).
NextCharOffset(doc, file) ==
    IF file.next # NoLineOffset THEN to_char_offset(doc, file.next) ELSE Len(doc)

EmbeddedFile(original_url, start, end) == [original_url |-> original_url, span |-> <<start, end>>]

\* sorted(list)
RECURSIVE sorted(_)
sorted(list) ==
    IF list = <<>> THEN <<>>
    ELSE LET Least(i) == <<list[i]>> \o sorted(SubSeq(list, 1, i - 1) \o SubSeq(list, i + 1, Len(list)))
         IN  Least(CHOOSE i \in 1..Len(list) : \A j \in 1..Len(list) : list[i] <= list[j])

\* Lines 380-386: the character offsets to convert, in ascending order.
OffsetsToConvert(doc, parsed) ==
    sorted(Concat([i \in 1..Len(parsed) |->
                      <<to_char_offset(doc, parsed[i].start), NextCharOffset(doc, parsed[i])>>]))

\* Lines 377-394: one pass over the document from its start that reads up to
\* each offset in turn and notes the position of the stream there.  The
\* stream has read processed_data_size characters; a read stops at the end
\* of the document.
RECURSIVE char_to_byte_offset(_, _, _, _)
char_to_byte_offset(doc, offsets, processed_data_size, table) ==
    LET Converted(offset, size) ==
            IF offset # size THEN [error |-> "AssertionError", table |-> table]
            ELSE char_to_byte_offset(doc, Tail(offsets), size, (offset :> tell(doc, size)) @@ table)
        Convert(offset) ==
            IF offset < processed_data_size THEN [error |-> "AssertionError", table |-> table]
            ELSE IF offset > processed_data_size
                 THEN Converted(offset, processed_data_size + Len(Slice(doc, processed_data_size, offset)))
                 ELSE Converted(offset, processed_data_size)
    IN  IF offsets = <<>> THEN [error |-> "None", table |-> table]
        ELSE Convert(Head(offsets))

\* Lines 396-419 for one candidate: the entry, or nothing.
EmbeddedFileOf(doc, table, file) ==
    LET Attribute(first, span) ==
            IF span[2] <= span[1] THEN <<>>
            ELSE <<EmbeddedFile(file.original_url, tell(doc, first + span[1]), tell(doc, first + span[2]))>>
        Span(first, start, end) ==
            IF file.attribute = <<>> THEN <<EmbeddedFile(file.original_url, start, end)>>
            ELSE Attribute(first, _find_tag_attribute_spans(ReadAt(doc, start, end - start), file.attribute))
        Candidate(first) == Span(first, table[first], table[NextCharOffset(doc, file)])
    IN  Candidate(to_char_offset(doc, file.start))

\* Lines 369-421, behind the feeding of the parser: the entries, or the
\* assertion that ends the construction.
gather_embedded_files(doc, parsed) ==
    LET Files(conversion) ==
            IF conversion.error # "None" THEN [error |-> conversion.error, files |-> <<>>]
            ELSE [error |-> "None",
                  files |-> Concat([i \in 1..Len(parsed) |->
                                       EmbeddedFileOf(doc, conversion.table, parsed[i])])]
    IN  Files(char_to_byte_offset(doc, OffsetsToConvert(doc, parsed), 0, <<>>))

_open_with_span(doc, start, end) ==
    DataURLFile(IF end <= start THEN <<>> ELSE ReadAt(doc, start, end - start))

JAVASCRIPT == <<"/", "j", "a", "v", "a", "s", "c", "r", "i", "p", "t">>

\* mimetypes.guess_extension for the media types of the model.
guess_extension(mime_type) == IF mime_type = TEXT_PLAIN THEN <<".", "t", "x", "t">> ELSE <<>>

\* hashlib.sha256(contents).hexdigest(): a digit and the bytes in hexadecimal
\* stand for the digest, a non-empty word of hexadecimal digits that is
\* distinct for distinct contents.
HexDigit(n) == IF n < 10 THEN ToString(n) ELSE Chr(87 + n)
sha256(contents) ==
    <<"0">> \o Concat([i \in 1..Len(contents) |-> <<HexDigit(contents[i] \div 16), HexDigit(contents[i] % 16)>>])

\* os.path.splitext(path)[1]
splitext(path) ==
    LET slash == CHOOSE k \in 0..Len(path) : (k = 0 \/ path[k] = "/") /\ \A j \in (k + 1)..Len(path) : path[j] # "/"
        base == SubSeq(path, slash + 1, Len(path))
        stem == SpanLength(base, {"."})
        dots == {k \in (stem + 1)..Len(base) : base[k] = "."}
    IN  IF dots = {} \/ stem = Len(base) THEN <<>>
        ELSE SubSeq(base, CHOOSE k \in dots : \A j \in dots : j <= k, Len(base))

HTML_MODE == 33279

\* _convert_to_row of HTMLMountSource; transform is the identity, mtime 0.
HtmlRow(doc, file) ==
    LET Row(contents, split) ==
            [path |-> split[1], name |-> split[2], offsetheader |-> file.span[1],
             offset |-> file.span[2], size |-> Len(contents), mtime |-> 0,
             mode |-> HTML_MODE, linkname |-> <<>>, uid |-> 0, gid |-> 0]
        VirtualPath(contents, virtual_path) == Row(contents, RSplitSlash(normpath(virtual_path)))
        Hashed(contents, extension, hashed) ==
            VirtualPath(contents, IF Lower(splitext(hashed)) # Lower(extension)
                                  THEN hashed \o extension ELSE hashed)
        Extension(contents, extension) ==
            Hashed(contents, extension,
                   IF file.original_url = <<>> \/ StartsWith(file.original_url, DATA_SCHEME)
                   THEN sha256(contents) \o extension ELSE file.original_url)
        UrlFile(url_file) ==
            Extension(url_file.content,
                      IF EndsWith(url_file.mime_type, JAVASCRIPT) THEN <<".", "j", "s">>
                      ELSE guess_extension(url_file.mime_type))
    IN  UrlFile(_open_with_span(doc, file.span[1], file.span[2]))

\* The decoder raises in _convert_to_row (line 453).
RowRaises(doc, file) == _open_with_span(doc, file.span[1], file.span[2]).state = "raised"

-----------------------------------------------------------------------------
(* Construction of an HTMLMountSource and open()                           *)

CurrentEvent == feed(htmlInput)[ev]

CurrentPosition == getpos(document, CurrentEvent.pos)

\* The parser goes on with the parserFiles of the handler, or the exception
\* of the handler ends gather_embedded_files and the construction.
Handled(outcome) ==
    /\ IF outcome.error = "None"
       THEN parserFiles' = outcome.files /\ ev' = ev + 1 /\ UNCHANGED <<hpc, htmlError>>
       ELSE hpc' = "failed" /\ htmlError' = outcome.error /\ UNCHANGED <<parserFiles, ev>>
    /\ UNCHANGED <<htmlInput, document, embedded, htmlRows, opened, htmlFile>>

Feeding(kind) == hpc = "feed" /\ ev <= Len(feed(htmlInput)) /\ CurrentEvent.kind = kind

HandleStartTag ==
    /\ Feeding("starttag")
    /\ Handled(handle_starttag(parserFiles, CurrentEvent.attrs, CurrentPosition))

HandleEndTag ==
    /\ Feeding("endtag")
    /\ Handled(handle_endtag(parserFiles, CurrentPosition))

HandleData ==
    /\ Feeding("data")
    /\ Handled(handle_data(parserFiles, CurrentEvent.data, CurrentPosition))

HandleDecl ==
    /\ Feeding("decl")
    /\ Handled(handle_decl(parserFiles, CurrentPosition))

\* handle_comment is not overridden.
HandleComment ==
    /\ Feeding("comment")
    /\ Handled(Parsed(parserFiles))

\* The document is fed: lines 369-421.
GatherEmbeddedFiles ==
    /\ hpc = "feed"
    /\ ev > Len(feed(htmlInput))
    /\ LET Gathered(outcome) ==
               IF outcome.error = "None"
               THEN /\ embedded' = outcome.files
                    /\ hpc' = "gathered"
                    /\ UNCHANGED htmlError
               ELSE /\ hpc' = "failed"
                    /\ htmlError' = outcome.error
                    /\ UNCHANGED embedded
       IN  Gathered(gather_embedded_files(document, parserFiles))
    /\ UNCHANGED <<htmlInput, document, ev, parserFiles, htmlRows, opened, htmlFile>>

\* self._finalize_index(lambda: self.index.set_file_infos([...])): a decoder
\* that raises in _convert_to_row ends the construction.
FinalizeHtml ==
    /\ hpc = "gathered"
    /\ IF \E i \in 1..Len(embedded) : RowRaises(document, embedded[i])
       THEN /\ hpc' = "failed"
            /\ htmlError' = "DecoderError"
            /\ UNCHANGED htmlRows
       ELSE /\ htmlRows' = [i \in 1..Len(embedded) |-> HtmlRow(document, embedded[i])]
            /\ hpc' = "ready"
            /\ UNCHANGED htmlError
    /\ UNCHANGED <<htmlInput, document, ev, parserFiles, embedded, opened, htmlFile>>

\* open(fileInfo) for the FileInfo of row i, and read() of the result.
OpenHtml(i) ==
    /\ hpc = "ready"
    /\ i \in 1..Len(htmlRows)
    /\ opened' = i
    /\ htmlFile' = _open_with_span(document, htmlRows[i].offsetheader, htmlRows[i].offset)
    /\ UNCHANGED <<htmlInput, document, ev, parserFiles, embedded, hpc, htmlError, htmlRows>>

InitHTML ==
    /\ ArIdle
    /\ UrlIdle
    /\ PathIdle
    /\ Unused
    /\ htmlInput \in SegmentSeqs
    /\ document = WriteDocument(htmlInput)
    /\ ev = 1
    /\ parserFiles = <<>>
    /\ embedded = <<>>
    /\ hpc = "feed"
    /\ htmlError = "None"
    /\ htmlRows = <<>>
    /\ opened = 0
    /\ htmlFile = NoUrlFile

NextHTML ==
    /\ \/ HandleStartTag
       \/ HandleEndTag
       \/ HandleData
       \/ HandleDecl
       \/ HandleComment
       \/ GatherEmbeddedFiles
       \/ FinalizeHtml
       \/ \E i \in 1..Len(htmlRows) : OpenHtml(i)
    /\ UNCHANGED <<besideHtml, indexVars>>

SpecHTML == InitHTML /\ [][NextHTML]_vars

-----------------------------------------------------------------------------
(* Properties of gather_embedded_files and of the HTML mount source        *)

ByteLength(text) == Len(encode(text, "utf-8").v)

\* Segments with one data URL that has a payload: the value of a
\* double-quoted attribute, or in url(...) within a style element.
SingleUrlSegments ==
    { StartTag(IMG, <<Attr(SRC, "\"", URL_TEXT)>>),
      StartTag(<<"I", "M", "G">>, <<Attr(<<"S", "R", "C">>, "\"", URL_BASE64)>>),
      StartTag(IMG, <<Attr(SRC, "\"", URL_UTF8)>>),
      StartTag(IMG, <<Attr(SRC, "\"", URL_NON_ASCII)>>),
      Style(<<"p", "{", "b", "a", "c", "k", "g", "r", "o", "u", "n", "d", ":", "u", "r", "l", "(">> \o URL_BASE64 \o <<")", "}">>) }

\* Segments without a data URL.
PlainSegments ==
    { Text(<<EACUTE, NL>>), Text(<<"a", "&", "a", "m", "p", ";", "b">>), StartTag(<<"a">>, <<Attr(<<"h", "r", "e", "f">>, "\"", <<"x">>)>>),
      EndTag(<<"p">>), Decl(<<"D", "O", "C", "T", "Y", "P", "E", SP, "h", "t", "m", "l">>), Comment(<<"c">>) }

\* Where the URL starts within the text of its segment, and the URL.
UrlOffset(seg) ==
    IF seg.kind = "start" THEN 1 + Len(seg.tag) + 1 + Len(seg.attrs[1].name) + 2
    ELSE Len(<<"<", "s", "t", "y", "l", "e", ">">>) + Find(seg.text, URL_OPEN, 0) + Len(URL_OPEN)

UrlOf(seg) ==
    IF seg.kind = "start" THEN seg.attrs[1].value
    ELSE Slice(seg.text, Find(seg.text, URL_OPEN, 0) + Len(URL_OPEN), Find(seg.text, <<")">>, 0))

UrlSegmentsOf(segs) == {i \in 1..Len(segs) : segs[i] \in SingleUrlSegments}

SingleUrlDocument(segs) ==
    /\ Cardinality(UrlSegmentsOf(segs)) = 1
    /\ \A i \in 1..Len(segs) : segs[i] \in SingleUrlSegments \cup PlainSegments

\* The bytes the URL occupies in the document as it was written.
WrittenSpan(segs) ==
    LET i == CHOOSE k \in UrlSegmentsOf(segs) : TRUE
        start == ByteLength(WriteDocument(SubSeq(segs, 1, i - 1))) + UrlOffset(segs[i])
    IN  <<start, start + ByteLength(UrlOf(segs[i]))>>

\* C6: a document with exactly one data URL with a payload, in a
\* double-quoted attribute or in url(...), gives exactly one entry, with an
\* empty original_url and the span of exactly the URL, also behind newlines
\* and multi-byte characters.
C6_SingleUrlGivesItsSpan ==
    (hpc \in {"gathered", "ready", "failed"} /\ SingleUrlDocument(htmlInput)) =>
        /\ htmlError \in {"None", "DecoderError"}
        /\ Len(embedded) = 1
        /\ embedded[1].original_url = <<>>
        /\ embedded[1].span = WrittenSpan(htmlInput)

\* The text of the document that occupies the bytes [start, end).
SpanText(doc, start, end) == Slice(doc, seek(doc, start), seek(doc, end))

\* C7: open(FileInfo).read() of a row is the decoding of exactly the text in
\* the bytes [offsetheader, offset) of the document, and has size bytes.
C7_OpenDecodesExactlyTheSpan ==
    (hpc = "ready" /\ opened > 0) =>
        LET row == htmlRows[opened]
        IN  /\ htmlFile.state = "ok"
            /\ htmlFile.content = DataURLFile(SpanText(document, row.offsetheader, row.offset)).content
            /\ Len(htmlFile.content) = row.size

-----------------------------------------------------------------------------
(* SQLiteIndex.normpath and SQLiteIndex._query_normpath as functions of the *)
(* path: the storage form and the query form.                               *)

\* A ".." with no segment left to remove stays in front of the path.
RECURSIVE ResolveQuerySegments(_, _)
ResolveQuerySegments(segments, done) ==
    IF segments = <<>> THEN done
    ELSE LET seg == Head(segments)
         IN  IF seg = <<>> \/ seg = <<".">> THEN ResolveQuerySegments(Tail(segments), done)
             ELSE IF seg = <<".", ".">> /\ done # <<>> /\ done[Len(done)] # <<".", ".">>
                  THEN ResolveQuerySegments(Tail(segments), SubSeq(done, 1, Len(done) - 1))
                  ELSE ResolveQuerySegments(Tail(segments), Append(done, seg))

\* The query form with ".." clamped at the root, as the storage form does.
_query_normpathMutant(path) == normpath(path)

_query_normpath(path) ==
    LET segments == ResolveQuerySegments(Split(path, <<"/">>), <<>>)
    IN  IF segments = <<>> THEN <<"/">> ELSE JoinPath(segments)

\* The paths of the tests of both functions are made of these segments.
PathSegments == {<<>>, <<".">>, <<".", ".">>, <<"a">>, <<"b">>}

MaxDepth == 4

\* "/".join(segments)
JoinSlash(segments) ==
    Concat([i \in 1..Len(segments) |-> IF i = 1 THEN segments[i] ELSE <<"/">> \o segments[i]])

PathInputs == {JoinSlash(segments) : segments \in UNION {[1..n -> PathSegments] : n \in 1..MaxDepth}}

Normalize ==
    /\ pathInput # NoPath
    /\ stored = NoPath
    /\ stored' = normpath(pathInput)
    /\ UNCHANGED <<pathInput, queried>>

QueryNormalize ==
    /\ pathInput # NoPath
    /\ queried = NoPath
    /\ queried' = _query_normpath(pathInput)
    /\ UNCHANGED <<pathInput, stored>>

InitPath ==
    /\ ArIdle
    /\ UrlIdle
    /\ HtmlIdle
    /\ Unused
    /\ pathInput \in PathInputs
    /\ stored = NoPath
    /\ queried = NoPath

NextPath ==
    /\ \/ Normalize
       \/ QueryNormalize
    /\ UNCHANGED <<arVars, urlVars, htmlVars, indexVars, threadVars, lifeVars>>

SpecPath == InitPath /\ [][NextPath]_vars

\* The segments between the slashes of an absolute path.
SegmentsOf(path) == IF path = <<"/">> THEN <<>> ELSE Split(Tail(path), <<"/">>)

Canonical(path) ==
    /\ path # <<>>
    /\ path[1] = "/"
    /\ path # <<"/">> => path[Len(path)] # "/"
    /\ \A i \in 1..Len(SegmentsOf(path)) : SegmentsOf(path)[i] \notin {<<>>, <<".">>, <<".", ".">>}

\* C14: the storage form of every path is canonical (it starts with "/", has
\* no empty, "." or ".." segment and no trailing "/" unless it is the root),
\* and normalizing it again gives the same path.
C14_NormpathIdempotentCanonical ==
    stored # NoPath => Canonical(stored) /\ normpath(stored) = stored

C14_Witness ==
    /\ stored \notin {NoPath, pathInput, <<"/">>}
    /\ \E i \in 1..Len(pathInput) - 1 : pathInput[i] = "." /\ pathInput[i + 1] = "."

\* How many ".." of the path go above the root.
RECURSIVE Excess(_, _, _)
Excess(segments, depth, count) ==
    IF segments = <<>> THEN count
    ELSE IF Head(segments) \in {<<>>, <<".">>} THEN Excess(Tail(segments), depth, count)
    ELSE IF Head(segments) # <<".", ".">> THEN Excess(Tail(segments), depth + 1, count)
    ELSE IF depth = 0 THEN Excess(Tail(segments), depth, count + 1)
    ELSE Excess(Tail(segments), depth - 1, count)

ParentSegments(count) == Concat([i \in 1..count |-> <<"/", ".", ".">>])

\* C15: the storage form and the query form of a path are equal when no ".."
\* of the path goes above the root; otherwise the storage form is clamped at
\* the root and the query form is the storage form with one leading ".."
\* segment for each ".." that went above the root.
C15_QueryKeepsExcessParents ==
    stored # NoPath /\ queried # NoPath =>
        LET count == Excess(Split(pathInput, <<"/">>), 0, 0)
        IN  /\ count = 0 => queried = stored
            /\ count > 0 => /\ Canonical(stored)
                            /\ queried = ParentSegments(count) \o (IF stored = <<"/">> THEN <<>> ELSE stored)

C15_Witness ==
    /\ stored \notin {NoPath, <<"/">>}
    /\ queried \notin {NoPath, stored}

-----------------------------------------------------------------------------
(* The file-info index of a mount source: lookup, list and versions over    *)
(* the rows the backend handed to set_file_infos.                           *)

\* The rows of the constructed mount source.
MountRows == IF pc = "ready" THEN rows ELSE IF hpc = "ready" THEN htmlRows ELSE <<>>

\* The segments of the path a row is stored under: (path, name) is the
\* result of rsplit("/", 1), path is "" for an entry of the root.
RowSegments(row) == SegmentsOf(row.path \o <<"/">> \o row.name)

IsPrefix(prefix, segments) ==
    Len(prefix) <= Len(segments) /\ SubSeq(segments, 1, Len(prefix)) = prefix

NoFileInfo == [kind |-> "None"]

FileInfoOf(row) ==
    [kind |-> "row", mode |-> row.mode, size |-> row.size, mtime |-> row.mtime,
     offsetheader |-> row.offsetheader, offset |-> row.offset]

DIRECTORY_MODE == 16749

\* The directory that stands for the root and for every folder that has
\* entries but no row of its own.
SynthesizedDirectory ==
    [kind |-> "directory", mode |-> DIRECTORY_MODE, size |-> 0, mtime |-> 0,
     offsetheader |-> 0, offset |-> 0]

\* The names of the immediate children of the folder with these segments.
Children(table, segments) ==
    {RowSegments(table[i])[Len(segments) + 1] :
        i \in {j \in 1..Len(table) : /\ Len(RowSegments(table[j])) > Len(segments)
                                     /\ IsPrefix(segments, RowSegments(table[j]))}}

\* list(path): the names of the children; None for a file and for a path
\* that does not exist, the empty mapping for the root of an empty source.
list(table, path) ==
    LET Found(segments) ==
            IF Children(table, segments) # {} \/ segments = <<>>
            THEN [kind |-> "dict", names |-> Children(table, segments)]
            ELSE [kind |-> "None", names |-> {}]
    IN  Found(SegmentsOf(_query_normpath(path)))

\* lookup(path): what the probe of the (path, name) key can return.  With
\* several rows under one key the index does not say which one it returns.
lookup(table, path) ==
    LET Probe(segments) ==
            LET hits == {i \in 1..Len(table) : RowSegments(table[i]) = segments}
            IN  IF hits # {} THEN {FileInfoOf(table[i]) : i \in hits}
                ELSE IF Children(table, segments) # {} \/ segments = <<>> THEN {SynthesizedDirectory}
                ELSE {NoFileInfo}
    IN  Probe(SegmentsOf(_query_normpath(path)))

\* The paths that have a row after set_file_infos: the rows of the backend,
\* the generated parent folders of each of them, and the root.
StoredSegments(table) ==
    {<<>>} \cup UNION {{SubSeq(RowSegments(table[i]), 1, n) : n \in 0..Len(RowSegments(table[i]))} :
                       i \in 1..Len(table)}

\* versions that counts the rows of the backend only.
versionsMutant(table, path) ==
    IF \E i \in 1..Len(table) : RowSegments(table[i]) = SegmentsOf(_query_normpath(path)) THEN 1 ELSE 0

versions(table, path) ==
    IF SegmentsOf(_query_normpath(path)) \in StoredSegments(table) THEN 1 ELSE 0

\* The paths the index is asked for: each stored path as it is, with a
\* trailing slash and with a further name, and paths above the root.
QueryPaths(table) ==
    LET paths == {IF segments = <<>> THEN <<"/">> ELSE JoinPath(segments) : segments \in StoredSegments(table)}
    IN  paths \cup {path \o <<"/">> : path \in paths} \cup {path \o <<"/", "z">> : path \in paths}
              \cup {<<".", ".">>, <<"z", "/", ".", ".", "/", "a">>}

\* One call of lookup, list and versions for the same path.
Query ==
    /\ pc = "ready" \/ hpc = "ready"
    /\ \E path \in QueryPaths(MountRows) : \E info \in lookup(MountRows, path) :
          query' = [path |-> path, lookup |-> info, list |-> list(MountRows, path),
                    versions |-> versions(MountRows, path)]
    /\ UNCHANGED <<arVars, urlVars, htmlVars, pathVars, threadVars, lifeVars>>

-----------------------------------------------------------------------------
(* Mount sources whose entries lie in folders: archives with BSD long names *)
(* that hold slashes, documents whose images were saved with their URL.     *)

MaxMountRecords == 2

\* A member with a BSD long name: the size field counts the name and the data.
BsdRec(length, size, body) == Rec(BSD_LONG_NAME_PREFIX \o length, <<"6", "4", "4">>, size, body)

MountRecordTemplates ==
    { Rec(<<"a">>, <<"6", "4", "4">>, <<"2">>, <<"x", "y">>),
      BsdRec(<<"1">>, <<"2">>, <<"d", "u">>),
      BsdRec(<<"3">>, <<"5">>, <<"d", "/", "e", "v", "w">>),
      BsdRec(<<"5">>, <<"6">>, <<"d", "/", "e", "/", "f", "x">>),
      BsdRec(<<"2">>, <<"4">>, <<".", ".", "y", "z">>) }

MountRecordSeqs == UNION {[1..n -> MountRecordTemplates] : n \in 0..MaxMountRecords}

MaxMountSegments == 2

SAVEPAGE_SRC == <<"d", "a", "t", "a", "-", "s", "a", "v", "e", "p", "a", "g", "e", "-", "s", "r", "c">>

SavedImage(original_url) ==
    StartTag(IMG, <<Attr(SAVEPAGE_SRC, "\"", original_url), Attr(SRC, "'", URL_BASE64)>>)

MountSegmentTemplates ==
    { StartTag(IMG, <<Attr(SRC, "\"", URL_TEXT)>>),
      SavedImage(<<"/", "o", ".", "p", "n", "g">>),
      SavedImage(<<"h", ":", "/", "/", "s", "/", "o">>),
      SavedImage(<<"h", ":", "/", "/", "s", "/", "o", "/", "p">>) }

MountSegmentSeqs == UNION {[1..n -> MountSegmentTemplates] : n \in 0..MaxMountSegments}

InitMount ==
    /\ UrlIdle
    /\ PathIdle
    /\ Unused
    /\ \/ /\ HtmlIdle
          /\ input \in [magic : {ARCH_MAGIC}, recs : MountRecordSeqs, cut : {0}]
          /\ stream = WriteArchive(input.magic, input.recs, input.cut)
          /\ fpos = 0
          /\ is_thin = FALSE
          /\ long_names = None
          /\ files = <<>>
          /\ pc = "magic"
          /\ rows = <<>>
          /\ reader = NoReader
          /\ result = NoResult
       \/ /\ ArIdle
          /\ htmlInput \in MountSegmentSeqs
          /\ document = WriteDocument(htmlInput)
          /\ ev = 1
          /\ parserFiles = <<>>
          /\ embedded = <<>>
          /\ hpc = "feed"
          /\ htmlError = "None"
          /\ htmlRows = <<>>
          /\ opened = 0
          /\ htmlFile = NoUrlFile

\* The construction of either mount source, then calls of the index.
NextMount ==
    \/ /\ \/ ReadMagic
          \/ ParseRecord
          \/ Finalize
       /\ UNCHANGED <<besideAr, indexVars>>
    \/ /\ \/ HandleStartTag
          \/ GatherEmbeddedFiles
          \/ FinalizeHtml
       /\ UNCHANGED <<besideHtml, indexVars>>
    \/ Query

SpecMount == InitMount /\ [][NextMount]_vars

-----------------------------------------------------------------------------
(* Properties of the rows and of the index built from them.                 *)

\* C11: the rows a backend hands to the index never hold two rows with the
\* same (parent path, name), whatever the archive or the document.
C11_RowKeysUnique ==
    \A i, j \in 1..Len(MountRows) :
        i # j => <<MountRows[i].path, MountRows[i].name>> # <<MountRows[j].path, MountRows[j].name>>

\* The path with these segments.
PathOf(segments) == IF segments = <<>> THEN <<"/">> ELSE JoinPath(segments)

\* C12: for the path of every row and each of its proper ancestors (the root
\* and every intermediate prefix), lookup of the ancestor gives a directory,
\* list of the ancestor holds the next component of the path, and list of
\* the path itself is absent or empty.
C12_AncestorsAreDirectories ==
    query.path # NoPath =>
        \A i \in 1..Len(MountRows) :
            /\ \A n \in 0..(Len(RowSegments(MountRows[i])) - 1) :
                  query.path = PathOf(SubSeq(RowSegments(MountRows[i]), 1, n)) =>
                      /\ query.lookup.kind # "None"
                      /\ S_ISDIR(query.lookup.mode)
                      /\ query.list.kind = "dict"
                      /\ RowSegments(MountRows[i])[n + 1] \in query.list.names
            /\ query.path = PathOf(RowSegments(MountRows[i])) => query.list.names = {}

\* C13: versions of a path is 1 when lookup of the path gives a FileInfo (a
\* file, the root, a folder without a row of its own) and 0 when lookup
\* gives nothing.
C13_VersionsFollowLookup ==
    query.path # NoPath => query.versions = (IF query.lookup.kind # "None" THEN 1 ELSE 0)

C13_Witness ==
    /\ query.path \notin {NoPath, <<"/">>}
    /\ query.lookup.kind = "directory"
    /\ query.versions = 1

-----------------------------------------------------------------------------
(* The stenciled reader of a member: read, seek and tell in any order.      *)

\* io.SEEK_SET, io.SEEK_CUR, io.SEEK_END
Whences == {"SEEK_SET", "SEEK_CUR", "SEEK_END"}

\* seek(offset, whence) of the stenciled reader: the logical position moves,
\* also behind the end of the stencil; the backing stream is positioned by
\* the next read.  A position before the start is not asked for.
SeekTarget(rd, offset, whence) ==
    CASE whence = "SEEK_SET" -> offset
      [] whence = "SEEK_CUR" -> rd.pos + offset
      [] whence = "SEEK_END" -> rd.size + offset

\* The positions a reader is moved to.
MaxPosition == 4

Seek(offset, whence) ==
    /\ pc = "ready"
    /\ reader.status = "open"
    /\ SeekTarget(reader, offset, whence) \in 0..MaxPosition
    /\ reader' = [reader EXCEPT !.pos = SeekTarget(reader, offset, whence)]
    /\ result' = [status |-> "seek", data |-> <<>>, at |-> SeekTarget(reader, offset, whence), n |-> offset]
    /\ UNCHANGED <<input, stream, fpos, is_thin, long_names, files, pc, rows>>

Tell ==
    /\ pc = "ready"
    /\ reader.status = "open"
    /\ result' = [status |-> "tell", data |-> <<>>, at |-> reader.pos, n |-> 0]
    /\ UNCHANGED <<input, stream, fpos, is_thin, long_names, files, pc, rows, reader>>

SeekOffsets == {-1, 0, 1, 3}

MaxReaderRecords == 2

\* Members with an even and an odd size and with a BSD long name, in an
\* archive that is complete or has lost its last byte.
ReaderRecordTemplates ==
    { Rec(<<"a">>, <<"6", "4", "4">>, <<"2">>, <<"x", "y">>),
      Rec(<<"b", "/">>, <<"1", "0", "0", "6", "4", "4">>, <<"1">>, <<"z">>),
      Rec(<<"#", "1", "/", "3">>, <<"6", "4", "4">>, <<"5">>, <<"L", "N", NUL, "e", "f">>) }

ReaderRecordSeqs == UNION {[1..n -> ReaderRecordTemplates] : n \in 0..MaxReaderRecords}

InitReader ==
    /\ UrlIdle
    /\ HtmlIdle
    /\ PathIdle
    /\ Unused
    /\ input \in [magic : {ARCH_MAGIC}, recs : ReaderRecordSeqs, cut : {0, 1}]
    /\ stream = WriteArchive(input.magic, input.recs, input.cut)
    /\ fpos = 0
    /\ is_thin = FALSE
    /\ long_names = None
    /\ files = <<>>
    /\ pc = "magic"
    /\ rows = <<>>
    /\ reader = NoReader
    /\ result = NoResult

NextReader ==
    /\ \/ ReadMagic
       \/ ParseRecord
       \/ Finalize
       \/ \E i \in 1..MaxReaderRecords : Open(i)
       \/ \E n \in ReadSizes : Read(n)
       \/ \E offset \in SeekOffsets, whence \in Whences : Seek(offset, whence)
       \/ Tell
    /\ UNCHANGED <<besideAr, indexVars>>

SpecReader == InitReader /\ [][NextReader]_vars

\* C16: whatever reads, seeks and tells came before, a read at the logical
\* position p of the reader of a member returns bytes of the member's
\* stencil that start at p, at most length - p of them and none at or behind
\* the end, and moves the position by the number of bytes returned; a seek
\* behind the end is accepted, and tell gives the position.
C16_ReadsStayInsideStencil ==
    /\ result.status = "data" =>
          /\ Len(result.data) <= Max(rows[reader.row].size - result.at, 0)
          /\ \A k \in 1..Len(result.data) :
                /\ rows[reader.row].offset + result.at + k <= Len(stream)
                /\ result.data[k] = stream[rows[reader.row].offset + result.at + k]
          /\ result.at >= rows[reader.row].size => result.data = <<>>
          /\ reader.pos = result.at + Len(result.data)
    /\ result.status \in {"seek", "tell"} => reader.pos = result.at

\* A read behind the end, after a seek to that position.
C16_Witness ==
    /\ result.status = "data"
    /\ result.at > rows[reader.row].size
    /\ rows[reader.row].size > 0
    /\ result.data = <<>>

-----------------------------------------------------------------------------
(* Threads that read from one mount source.  Every thread has a reader of   *)
(* its own; the backing stream and its position are shared.                 *)

\* A lock of its own for the reader of every thread.
StencilLockMutant(t) == IF t = 1 THEN "readerLock1" ELSE "readerLock2"

\* The lock a stenciled reader is given: self.fileObjectLock, for all of them.
StencilLock(t) == "fileObjectLock"

LockFree(l) == IF l \in DOMAIN lockHolder THEN lockHolder[l] = 0 ELSE TRUE

SetLock(l, t) == [k \in DOMAIN lockHolder \cup {l} |-> IF k = l THEN t ELSE lockHolder[k]]

InCriticalSection(t) == tpc[t] \in {"locked", "sought", "read"}

\* open(fileInfo) on thread t.  The AR source builds a stenciled reader and
\* does not touch the stream; the HTML source reads the span at once, and a
\* span without characters gives the empty DataURLFile without the lock.
ThreadOpen(t, i) ==
    /\ tpc[t] = "idle"
    /\ \/ /\ pc = "ready"
          /\ i \in 1..Len(rows)
          /\ open(rows[i]).status = "open"
          /\ treader' = [treader EXCEPT ![t] = [kind |-> "ar", reader |-> [open(rows[i]) EXCEPT !.row = i],
                                                lock |-> StencilLock(t)]]
          /\ tpc' = [tpc EXCEPT ![t] = "opened"]
       \/ /\ hpc = "ready"
          /\ i \in 1..Len(htmlRows)
          /\ treader' = [treader EXCEPT ![t] =
                            [kind |-> "html",
                             reader |-> [NoReader EXCEPT !.status = "open", !.row = i,
                                                         !.offset = htmlRows[i].offsetheader,
                                                         !.size = htmlRows[i].offset - htmlRows[i].offsetheader],
                             lock |-> "fileObjectLock"]]
          /\ tpc' = [tpc EXCEPT ![t] = IF htmlRows[i].offset <= htmlRows[i].offsetheader THEN "done" ELSE "opened"]
    /\ UNCHANGED <<lockHolder, tresult, spos>>

\* read(n) of the stenciled reader, or the body of _open_with_span: the lock
\* is taken, ...
ThreadAcquire(t, n) ==
    /\ tpc[t] \in {"opened", "returned"}
    /\ LockFree(treader[t].lock)
    /\ lockHolder' = SetLock(treader[t].lock, t)
    /\ tresult' = [tresult EXCEPT ![t] = [status |-> "pending", data |-> <<>>, at |-> treader[t].reader.pos, n |-> n]]
    /\ tpc' = [tpc EXCEPT ![t] = "locked"]
    /\ UNCHANGED <<treader, spos>>

\* ... the backing stream is moved to the position of this reader, ...
ThreadSeek(t) ==
    /\ tpc[t] = "locked"
    /\ spos' = treader[t].reader.offset + treader[t].reader.pos
    /\ tpc' = [tpc EXCEPT ![t] = "sought"]
    /\ UNCHANGED <<lockHolder, treader, tresult>>

\* ... the stream is read where it stands: bytes of the binary stream of the
\* archive, characters of the text stream of the document, ...
ThreadRead(t) ==
    /\ tpc[t] = "sought"
    /\ LET Returned(data, position) ==
               /\ tresult' = [tresult EXCEPT ![t] = [@ EXCEPT !.status = "data", !.data = data]]
               /\ spos' = position
           count == IF tresult[t].n < 0 THEN Max(treader[t].reader.size - treader[t].reader.pos, 0)
                    ELSE Min(tresult[t].n, Max(treader[t].reader.size - treader[t].reader.pos, 0))
           BinaryRead(data) == Returned(data, spos + Len(data))
           TextRead(data) == Returned(data, tell(document, seek(document, spos) + Len(data)))
       IN  IF treader[t].kind = "ar" THEN BinaryRead(FileRead(stream, spos, count))
           ELSE TextRead(ReadAt(document, spos, treader[t].reader.size))
    /\ tpc' = [tpc EXCEPT ![t] = "read"]
    /\ UNCHANGED <<lockHolder, treader>>

\* ... and the lock is given back before the caller gets the data.
ThreadRelease(t) ==
    /\ tpc[t] = "read"
    /\ lockHolder' = SetLock(treader[t].lock, 0)
    /\ treader' = [treader EXCEPT ![t].reader.pos = @ + Len(tresult[t].data)]
    /\ tpc' = [tpc EXCEPT ![t] = IF treader[t].kind = "html" \/ tresult[t].data = <<>> THEN "done" ELSE "returned"]
    /\ UNCHANGED <<tresult, spos>>

\* Two members, so that the readers of two threads can differ.
ThreadRecordSeqs == [1..2 -> ReaderRecordTemplates]

ThreadSegmentSeqs == [1..2 -> {StartTag(IMG, <<Attr(SRC, "\"", URL_TEXT)>>), SavedImage(<<"/", "o", ".", "p", "n", "g">>)}]

InitThreads ==
    /\ UrlIdle
    /\ PathIdle
    /\ Unused
    /\ \/ /\ HtmlIdle
          /\ input \in [magic : {ARCH_MAGIC}, recs : ThreadRecordSeqs, cut : {0}]
          /\ stream = WriteArchive(input.magic, input.recs, input.cut)
          /\ fpos = 0
          /\ is_thin = FALSE
          /\ long_names = None
          /\ files = <<>>
          /\ pc = "magic"
          /\ rows = <<>>
          /\ reader = NoReader
          /\ result = NoResult
       \/ /\ ArIdle
          /\ htmlInput \in ThreadSegmentSeqs
          /\ document = WriteDocument(htmlInput)
          /\ ev = 1
          /\ parserFiles = <<>>
          /\ embedded = <<>>
          /\ hpc = "feed"
          /\ htmlError = "None"
          /\ htmlRows = <<>>
          /\ opened = 0
          /\ htmlFile = NoUrlFile

NextThreads ==
    \/ /\ \/ ReadMagic
          \/ ParseRecord
          \/ Finalize
       /\ UNCHANGED <<besideAr, indexVars>>
    \/ /\ \/ HandleStartTag
          \/ GatherEmbeddedFiles
          \/ FinalizeHtml
       /\ UNCHANGED <<besideHtml, indexVars>>
    \/ /\ \E t \in Threads :
             \/ \E i \in 1..2 : ThreadOpen(t, i)
             \/ \E n \in ReadSizes : ThreadAcquire(t, n)
             \/ ThreadSeek(t)
             \/ ThreadRead(t)
             \/ ThreadRelease(t)
       /\ UNCHANGED <<arVars, urlVars, htmlVars, pathVars, indexVars, lifeVars>>

SpecThreads == InitThreads /\ [][NextThreads]_vars

\* What the read of thread t returns when no other thread uses the source.
OwnData(t) ==
    IF treader[t].kind = "ar"
    THEN LET Member(row) ==
                 FileRead(stream, row.offset + tresult[t].at,
                          IF tresult[t].n < 0 THEN Max(row.size - tresult[t].at, 0)
                          ELSE Min(tresult[t].n, Max(row.size - tresult[t].at, 0)))
         IN  Member(rows[treader[t].reader.row])
    ELSE LET Span(row) == ReadAt(document, row.offsetheader, row.offset - row.offsetheader)
         IN  Span(htmlRows[treader[t].reader.row])

\* C17: with readers of one mount source used on different threads, every
\* read returns the bytes of the reader's own member at the reader's own
\* position; the seek and the read on the backing stream are one critical
\* section that only one thread is in; a thread outside that section
\* (before the read and once it has returned) does not hold the lock.
C17_ConcurrentReadsAreIsolated ==
    \A t \in Threads :
        /\ tresult[t].status = "data" => tresult[t].data = OwnData(t)
        /\ InCriticalSection(t) => \A u \in Threads \ {t} : ~InCriticalSection(u)
        /\ ~InCriticalSection(t) => \A l \in DOMAIN lockHolder : lockHolder[l] # t

\* Two threads have read different members, the later read began while the
\* stream stood behind the data of the other member.
C17_Witness ==
    /\ tpc[1] = "done" /\ tpc[2] = "done"
    /\ tresult[1].status = "data" /\ tresult[2].status = "data"
    /\ treader[1].reader.row # treader[2].reader.row
    /\ treader[1].reader.pos > 0 /\ treader[2].reader.pos > 0

-----------------------------------------------------------------------------
(* The backing stream of a mount source from the call of the constructor    *)
(* to the calls of close().  The constructor is given a path, and opens the *)
(* stream itself, or a stream object that is open.                          *)

MaxCloses == 2

\* ARMountSource.__init__, line 205: the stream of the path is opened, a
\* stream object is kept as it is.
ArOpenStream ==
    /\ pc = "new"
    /\ backing' = "open"
    /\ pc' = "magic"
    /\ UNCHANGED <<input, stream, fpos, is_thin, long_names, files, rows, reader, result>>
    /\ UNCHANGED <<urlVars, htmlVars, pathVars, indexVars, threadVars, given, closes, lastCall>>

\* HTMLMountSource.__init__, lines 429-431: is_html_file reads the stream
\* inside a with statement, which closes its stream at the end: the handle
\* opened for the check, or the stream object the caller passed.  The
\* documents of the model are HTML.
HtmlCheck ==
    /\ hpc = "new"
    /\ backing' = IF given = "object" THEN "closed" ELSE backing
    /\ hpc' = "checked"
    /\ UNCHANGED <<htmlInput, document, ev, parserFiles, embedded, htmlError, htmlRows, opened, htmlFile>>
    /\ UNCHANGED <<arVars, urlVars, pathVars, indexVars, threadVars, given, closes, lastCall>>

\* Lines 434-438: the path is opened in text mode; a stream object is
\* wrapped in io.TextIOWrapper, which raises ValueError for a closed stream.
HtmlOpenStream ==
    /\ hpc = "checked"
    /\ IF given = "path"
       THEN backing' = "open" /\ hpc' = "feed" /\ UNCHANGED htmlError
       ELSE IF backing = "closed"
            THEN hpc' = "failed" /\ htmlError' = "ValueError" /\ UNCHANGED backing
            ELSE hpc' = "feed" /\ UNCHANGED <<htmlError, backing>>
    /\ UNCHANGED <<htmlInput, document, ev, parserFiles, embedded, htmlRows, opened, htmlFile>>
    /\ UNCHANGED <<arVars, urlVars, pathVars, indexVars, threadVars, given, closes, lastCall>>

\* close().  HTMLMountSource.close (lines 507-513) calls the inherited close
\* and closes self.fileObject under the lock; closing a closed stream does
\* nothing.  ARMountSource defines no close: the inherited one runs, which
\* knows nothing of self.fileObject.
Close ==
    /\ pc = "ready" \/ hpc = "ready"
    /\ closes < MaxCloses
    /\ closes' = closes + 1
    /\ backing' = IF hpc = "ready" THEN "closed" ELSE backing
    /\ UNCHANGED <<arVars, urlVars, htmlVars, pathVars, indexVars, threadVars, given, lastCall>>

\* open(fileInfo) of the AR source: no access to the stream.
LifeOpen(i) ==
    /\ Open(i)
    /\ lastCall' = [op |-> "open", closes |-> closes, ok |-> open(rows[i]).status = "open"]
    /\ UNCHANGED <<urlVars, htmlVars, pathVars, indexVars, threadVars, given, backing, closes>>

\* read(n) of a stenciled reader: a closed backing stream fails the read.
LifeRead(n) ==
    /\ IF backing = "open" THEN Read(n)
       ELSE /\ pc = "ready"
            /\ reader.status = "open"
            /\ result' = [status |-> "ValueError", data |-> <<>>, at |-> reader.pos, n |-> n]
            /\ UNCHANGED <<input, stream, fpos, is_thin, long_names, files, pc, rows, reader>>
    /\ lastCall' = [op |-> "read", closes |-> closes, ok |-> backing = "open"]
    /\ UNCHANGED <<urlVars, htmlVars, pathVars, indexVars, threadVars, given, backing, closes>>

\* open(fileInfo) of the HTML source: seek on a closed stream raises.
LifeOpenHtml(i) ==
    /\ hpc = "ready"
    /\ i \in 1..Len(htmlRows)
    /\ IF backing = "open" \/ htmlRows[i].offset <= htmlRows[i].offsetheader THEN OpenHtml(i)
       ELSE /\ hpc = "ready"
            /\ i \in 1..Len(htmlRows)
            /\ opened' = i
            /\ htmlFile' = [NoUrlFile EXCEPT !.state = "ValueError"]
            /\ UNCHANGED <<htmlInput, document, ev, parserFiles, embedded, hpc, htmlError, htmlRows>>
    /\ lastCall' = [op |-> "open", closes |-> closes,
                    ok |-> backing = "open" \/ htmlRows[i].offset <= htmlRows[i].offsetheader]
    /\ UNCHANGED <<arVars, urlVars, pathVars, indexVars, threadVars, given, backing, closes>>

\* read() of the DataURLFile that open() returned: it holds the decoded
\* bytes in memory and has no tie to the stream of the document.
LifeReadHtml ==
    /\ hpc = "ready"
    /\ htmlFile.state = "ok"
    /\ lastCall' = [op |-> "read", closes |-> closes, ok |-> TRUE]
    /\ UNCHANGED <<arVars, urlVars, htmlVars, pathVars, indexVars, threadVars, given, backing, closes>>

InitLife ==
    /\ UrlIdle
    /\ PathIdle
    /\ IndexIdle
    /\ ThreadIdle
    /\ given \in {"path", "object"}
    /\ backing = IF given = "path" THEN "unopened" ELSE "open"
    /\ closes = 0
    /\ lastCall = NoCall
    /\ \/ /\ HtmlIdle
          /\ input \in [magic : {ARCH_MAGIC}, recs : ThreadRecordSeqs, cut : {0}]
          /\ stream = WriteArchive(input.magic, input.recs, input.cut)
          /\ fpos = 0
          /\ is_thin = FALSE
          /\ long_names = None
          /\ files = <<>>
          /\ pc = "new"
          /\ rows = <<>>
          /\ reader = NoReader
          /\ result = NoResult
       \/ /\ ArIdle
          /\ htmlInput \in ThreadSegmentSeqs
          /\ document = WriteDocument(htmlInput)
          /\ ev = 1
          /\ parserFiles = <<>>
          /\ embedded = <<>>
          /\ hpc = "new"
          /\ htmlError = "None"
          /\ htmlRows = <<>>
          /\ opened = 0
          /\ htmlFile = NoUrlFile

NextLife ==
    \/ ArOpenStream
    \/ /\ \/ ReadMagic
          \/ ParseRecord
          \/ Finalize
       /\ UNCHANGED <<besideAr, indexVars>>
    \/ HtmlCheck
    \/ HtmlOpenStream
    \/ /\ \/ HandleStartTag
          \/ GatherEmbeddedFiles
          \/ FinalizeHtml
       /\ UNCHANGED <<besideHtml, indexVars>>
    \/ Close
    \/ \E i \in 1..2 : LifeOpen(i)
    \/ \E n \in ReadSizes : LifeRead(n)
    \/ \E i \in 1..2 : LifeOpenHtml(i)
    \/ LifeReadHtml

SpecLife == InitLife /\ [][NextLife]_vars

\* C18: a mount source of either backend, made from a path or from a stream
\* object that is open, is constructed without losing its stream, and from
\* then until close() is called the backing stream is open, so that open()
\* and read() succeed.
C18_StreamOpenUntilClose ==
    closes = 0 =>
        /\ backing # "closed"
        /\ htmlError # "ValueError"
        /\ pc = "ready" \/ hpc = "ready" => backing = "open"
        /\ lastCall.ok

\* C19: once close() was called, on either backend, the backing stream is
\* closed, and every open() and every read through a reader that was made
\* before the close fails.
C19_ClosedSourceFailsCalls ==
    /\ closes >= 1 => backing = "closed"
    /\ lastCall.closes >= 1 => ~lastCall.ok

\* C20: the first close() releases the backing stream, and every further
\* close() leaves it released and raises nothing.
C20_CloseIsIdempotent ==
    [][/\ closes' = 1 /\ closes = 0 => backing' = "closed"
       /\ closes' > 1 /\ closes' # closes => backing' = backing /\ backing = "closed"]_vars

-----------------------------------------------------------------------------
(* The numeric fields of a header.  An archive of one member is written    *)
(* with one of its five numeric fields set to a chosen byte string, and    *)
(* the mount source is constructed from it.                                *)

FieldNames == {"mtime", "uid", "gid", "mode", "size"}

MaxFieldLength == 3

FieldBytes == {"1", "8", SP, NL, "x"}

FieldValues == UNION {[1..n -> FieldBytes] : n \in 0..MaxFieldLength}

\* The header of the member "a" with in.value in the field in.field.
WriteFieldHeader(in) ==
    LET Field(name, width) == LJust(IF in.field = name THEN in.value ELSE <<"1">>, width)
    IN  LJust(<<"a">>, 16) \o Field("mtime", 12) \o Field("uid", 6) \o Field("gid", 6)
            \o Field("mode", 8) \o Field("size", 10) \o HEADER_END

InitFields ==
    /\ UrlIdle
    /\ HtmlIdle
    /\ PathIdle
    /\ Unused
    /\ input \in [field : FieldNames, value : FieldValues]
    /\ stream = ARCH_MAGIC \o WriteFieldHeader(input)
    /\ fpos = 0
    /\ is_thin = FALSE
    /\ long_names = None
    /\ files = <<>>
    /\ pc = "magic"
    /\ rows = <<>>
    /\ reader = NoReader
    /\ result = NoResult

SpecFields == InitFields /\ [][NextAR]_vars

BaseOf(field) == IF field = "mode" THEN 8 ELSE 10

DefaultOf(field) == IF field = "mode" THEN DEFAULT_MODE ELSE 0

IsDigitsOf(s, base) == \A i \in 1..Len(s) : s[i] \in Digits /\ DigitVal(s[i]) < base

\* The value of the field of a row.
RowField(row, field) ==
    IF field = "mtime" THEN row.mtime
    ELSE IF field = "uid" THEN row.uid
    ELSE IF field = "gid" THEN row.gid
    ELSE IF field = "size" THEN row.size
    ELSE row.mode

\* The value a field with the given digits stands for.
FieldResult(field, digits) ==
    LET number == IF digits = <<>> THEN DefaultOf(field) ELSE IntOf(digits, BaseOf(field))
    IN  IF field = "mode" THEN BitOr(number, S_IFREG) ELSE number

\* The construction accepts the field with the given digits, and the row of
\* the member carries their value, or it fails on the header.
FieldOutcome(accepted, digits) ==
    IF accepted
    THEN /\ pc # "failed"
         /\ \A i \in 1..Len(files) : files[i].offset = MAGIC_SIZE
         /\ pc = "ready" => /\ Len(rows) = 1
                            /\ RowField(rows[1], input.field) = FieldResult(input.field, digits)
    ELSE /\ pc \in {"magic", "headers", "failed"}
         /\ files = <<>>
         /\ rows = <<>>

\* C22 as claimed: the digits of a numeric field may be surrounded by
\* whitespace, leading as well as trailing; a field that is empty after
\* stripping yields the default (0o660 for the mode, 0 for the others), and
\* every other content makes the construction fail.
C22_FieldsAcceptSurroundingWhitespace ==
    LET digits == Strip(input.value, Whitespace)
    IN  FieldOutcome(IsDigitsOf(digits, BaseOf(input.field)), digits)

\* C22 as amended: the digits of a numeric field may be followed by spaces,
\* and by nothing else; a field of spaces only, or an empty one, yields the
\* default (0o660 for the mode, 0 for the others), and every other content,
\* leading whitespace included, makes the construction fail.
C22_FieldsAcceptTrailingSpaces ==
    LET digits == RStrip(input.value, {SP})
    IN  FieldOutcome(IsDigitsOf(digits, BaseOf(input.field)), digits)

\* A mode of spaces only gave the default mode, and the digits of a size
\* were followed by a space.
C22_Witness ==
    /\ pc = "ready"
    /\ \/ /\ input.field = "mode"
          /\ input.value = <<SP, SP>>
          /\ rows[1].mode = BitOr(DEFAULT_MODE, S_IFREG)
       \/ /\ input.field = "size"
          /\ input.value = <<"1", "8", SP>>
          /\ rows[1].size = 18

-----------------------------------------------------------------------------
(* GNU long names in regular archives.                                     *)

TableTemplates(recs) == SelectSeq(recs, LAMBDA r : r.name = GNU_INDEX_NAME)

\* The entries of a long-name table: its bytes split on "/" newline, without
\* the grave accent or newline that ends a table of even size.
TableEntries(table) ==
    LET entries == Split(table, <<"/", NL>>)
    IN  IF Len(table) % 2 = 0 /\ entries[Len(entries)] \in {<<GRAVE>>, <<NL>>}
        THEN SubSeq(entries, 1, Len(entries) - 1)
        ELSE entries

\* The name of the member written from rec in an archive with the given table
\* entries: the entry a header name /<i> refers to, the bytes behind the
\* header for a name #1/N, and the header name otherwise.
LongNameOf(rec, entries) ==
    LET i == TableReference(rec.name)
    IN  IF i >= 0 /\ i < Len(entries) THEN entries[i + 1]
        ELSE IF StartsWith(rec.name, BSD_LONG_NAME_PREFIX)
             THEN SubSeq(rec.body, 1, BsdNameLength(rec.name))
             ELSE rec.name

\* C23: in a regular archive with one GNU long-name table, a member /<i> is
\* exposed under entry i of the table, whether the table precedes the member
\* or follows it, and a member /<i> with i outside the table, like every
\* member with another name, keeps its name.
C23_GnuLongNamesFromTable ==
    (~is_thin /\ pc \in {"parsed", "ready"} /\ input.cut = 0
        /\ Len(TableTemplates(input.recs)) = 1) =>
        LET entries == TableEntries(TableTemplates(input.recs)[1].body)
            members == MemberTemplates(input.recs)
        IN  /\ Len(files) = Len(members)
            /\ \A i \in 1..Len(files) :
                   files[i].name = Strip(LongNameOf(members[i], entries), {NUL})
            /\ \A i \in 1..Len(rows) :
                   <<rows[i].path, rows[i].name>>
                       = RSplitSlash(normpath(Strip(LongNameOf(members[i], entries), {NUL})))

\* The member /1 got its name from the table that follows it.
C23_Witness ==
    /\ pc = "ready"
    /\ ~is_thin
    /\ input.cut = 0
    /\ Len(input.recs) = 2
    /\ input.recs[1].name = <<"/", "1">>
    /\ input.recs[2].name = GNU_INDEX_NAME
    /\ Len(rows) = 1
    /\ rows[1].name = <<"m", "n">>

-----------------------------------------------------------------------------
(* BSD long names.                                                         *)

\* The header at stream offset h has a name #1/N.
BsdMemberAt(h) == StartsWith(HeaderNameAt(h), BSD_LONG_NAME_PREFIX)

\* The size field of the header at stream offset h.
SizeFieldAt(h) == IntOf(RStrip(SubSeq(stream, h + 49, h + 58), {SP}), 10)

\* The N bytes behind the header at stream offset h, without trailing NULs.
BsdNameAt(h) ==
    RStrip(SubSeq(stream, h + HEADER_SIZE + 1, h + HEADER_SIZE + BsdNameLength(HeaderNameAt(h))),
           {NUL})

\* The member parsed from the header #1/N at h has the N bytes behind the
\* header as its name, its data N bytes further, and N bytes less.
BsdMemberParsed(info, h) ==
    /\ info.name = BsdNameAt(h)
    /\ info.offset_data = h + HEADER_SIZE + BsdNameLength(HeaderNameAt(h))
    /\ info.size = SizeFieldAt(h) - BsdNameLength(HeaderNameAt(h))

BsdRow(row) ==
    LET h == row.offsetheader
    IN  BsdMemberAt(h) =>
            /\ <<row.path, row.name>> = RSplitSlash(normpath(BsdNameAt(h)))
            /\ row.offset = h + HEADER_SIZE + BsdNameLength(HeaderNameAt(h))
            /\ row.size = SizeFieldAt(h) - BsdNameLength(HeaderNameAt(h))

\* The header behind the member at h is read behind the body and its pad byte.
NextHeaderBehindBody(h) == fpos' = h + HEADER_SIZE + SizeFieldAt(h) + (SizeFieldAt(h) % 2)

\* C24 as claimed: the member of a record #1/N has the N bytes behind the
\* 60-byte header as its name, without trailing NULs; its row has data_offset
\* = header_offset + 60 + N and size = size field - N; and the next header is
\* read at header_offset + 60 + size field + (size field mod 2).
C24_BsdLongName ==
    [][/\ (Len(files') = Len(files) + 1 /\ BsdMemberAt(fpos)) =>
              /\ BsdMemberParsed(files'[Len(files')], fpos)
              /\ NextHeaderBehindBody(fpos)
       /\ rows' # rows => \A i \in 1..Len(rows') : BsdRow(rows'[i])]_vars

\* C24 as amended: the same, but the next header is read at header_offset +
\* 60 + size field + (size field mod 2) in a regular archive only; in a thin
\* archive it is read directly behind the header of the member.
C24_BsdLongNameRegular ==
    [][/\ (Len(files') = Len(files) + 1 /\ BsdMemberAt(fpos)) =>
              /\ BsdMemberParsed(files'[Len(files')], fpos)
              /\ IF is_thin THEN fpos' = fpos + HEADER_SIZE ELSE NextHeaderBehindBody(fpos)
       /\ rows' # rows => \A i \in 1..Len(rows') : BsdRow(rows'[i])]_vars

\* The member #1/3 of a regular archive, with its name LN, its data at 71 and
\* its 2 bytes, and a second member behind its body.
C24_Witness ==
    /\ pc = "ready"
    /\ ~is_thin
    /\ Len(rows) = 2
    /\ HeaderNameAt(rows[1].offsetheader) = <<"#", "1", "/", "3">>
    /\ rows[1].name = <<"L", "N">>
    /\ rows[1].offset = MAGIC_SIZE + HEADER_SIZE + 3
    /\ rows[1].size = 2
    /\ rows[2].offsetheader = MAGIC_SIZE + HEADER_SIZE + 6

-----------------------------------------------------------------------------
(* The offsets of the headers.                                             *)

\* A whole header can be read at stream offset h.
HeaderAt(h) == Len(FileRead(stream, h, HEADER_SIZE)) = HEADER_SIZE

\* Where the header behind the record at h belongs: directly behind the
\* header of a thin-archive member, and behind the body and its pad byte for
\* every other record.
AlignedNextHeader(h) ==
    IF is_thin /\ ~IsSpecialName(HeaderNameAt(h)) THEN h + HEADER_SIZE
    ELSE h + HEADER_SIZE + SizeFieldAt(h) + (SizeFieldAt(h) % 2)

\* C25: every header the parser reads starts at an even offset: behind a
\* regular member, a symbol table or a long-name table of size s the next
\* header is read at body_start + s + (s mod 2), behind a thin-archive member
\* directly behind its header, in regular and thin archives and for odd and
\* even table sizes.
C25_HeadersAtEvenOffsets ==
    [][(pc = "headers" /\ pc' = "headers" /\ HeaderAt(fpos')) =>
           /\ fpos' = AlignedNextHeader(fpos)
           /\ fpos' % 2 = 0]_vars

-----------------------------------------------------------------------------
(* The rows of an archive and its records.                                 *)

\* The stream offset at which record k of the archive was written.
RecordOffset(in, k) ==
    MAGIC_SIZE + Len(Concat([j \in 1..(k - 1) |-> WriteRecord(in.recs[j], in.magic = THIN_MAGIC)]))

\* The offsets of the records that are neither a symbol table nor a
\* long-name table, in archive order.
MemberOffsets(in) ==
    LET offsets == [k \in 1..Len(in.recs) |->
                       [offset |-> RecordOffset(in, k), special |-> IsSpecialName(in.recs[k].name)]]
        members == SelectSeq(offsets, LAMBDA r : ~r.special)
    IN  [i \in 1..Len(members) |-> members[i].offset]

TableOffsets(in) ==
    {RecordOffset(in, k) : k \in {j \in 1..Len(in.recs) : IsSpecialName(in.recs[j].name)}}

\* C26: the parser emits one row for every record that is neither the symbol
\* table nor the long-name table, in archive order, and none for the tables:
\* there are as many rows as such records, and lookup and list show no table.
C26_OneRowPerMember ==
    LET members == MemberOffsets(input)
    IN  /\ pc \in {"parsed", "ready"} =>
               /\ Len(files) = Len(members)
               /\ \A i \in 1..Len(files) : files[i].offset = members[i]
        /\ pc = "ready" =>
               /\ Len(rows) = Len(members)
               /\ \A i \in 1..Len(rows) : rows[i].offsetheader = members[i]
               /\ \A r \in 1..Len(rows) : \A info \in lookup(rows, PathOf(RowSegments(rows[r]))) :
                      info.kind = "row" => /\ info.offsetheader \notin TableOffsets(input)
                                           /\ \E i \in 1..Len(members) : info.offsetheader = members[i]
               /\ Cardinality(list(rows, <<"/">>).names) <= Len(members)

\* A symbol table and a member behind it gave one row.
C26_Witness ==
    /\ pc = "ready"
    /\ Len(input.recs) = 2
    /\ input.recs[1].name = POSIX_SYMBOL_TABLE_NAME
    /\ ~IsSpecialName(input.recs[2].name)
    /\ Len(rows) = 1
    /\ rows[1].offsetheader = MAGIC_SIZE + HEADER_SIZE + 4

-----------------------------------------------------------------------------
(* The file type of the members of a regular archive.                      *)

\* C29: every row of a regular archive is a regular file, whatever the mode
\* field of its header holds: it is no directory and no symbolic link, its
\* link name is empty, and open() on it is not refused.
C29_RegularRowsAreRegularFiles ==
    (pc = "ready" /\ ~is_thin) =>
        /\ \A i \in 1..Len(rows) :
               /\ S_ISREG(rows[i].mode)
               /\ ~S_ISDIR(rows[i].mode)
               /\ ~S_ISLNK(rows[i].mode)
               /\ rows[i].linkname = <<>>
        /\ reader.status # "RatarmountError"

-----------------------------------------------------------------------------
(* Character offsets and byte offsets of a document.                       *)

\* The character offset at which a line of the document starts: 0 for
\* line 1, else the offset behind the newline that ends the line before.
LineStart(doc, line) ==
    IF line = 1 THEN 0
    ELSE CHOOSE k \in 1..Len(doc) :
             /\ doc[k] = NL
             /\ Cardinality({j \in 1..k : doc[j] = NL}) = line - 1

\* The character offsets of the start and of the end of a candidate.
CandidateOffsets(doc, file) ==
    {LineStart(doc, file.start.line) + file.start.offset,
     IF file.next # NoLineOffset THEN LineStart(doc, file.next.line) + file.next.offset
     ELSE Len(doc)}

\* C27: the character offset of a candidate position (line, char_off) is
\* line_starts[line-1] + char_off; the offsets are converted in ascending
\* order in one pass; the byte offset noted for a character offset c is the
\* position of the stream behind the first c characters of the document, so
\* that byte offsets grow with character offsets; and no assertion of the
\* conversion fails, for any document.
C27_CharacterToByteOffsets ==
    LET Ascending(offsets) == \A k \in 1..(Len(offsets) - 1) : offsets[k] <= offsets[k + 1]
        Converted(conversion) ==
            /\ conversion.error = "None"
            /\ \A i \in 1..Len(parserFiles) : \A c \in CandidateOffsets(document, parserFiles[i]) :
                   /\ c \in DOMAIN conversion.table
                   /\ conversion.table[c] = ByteLength(Slice(document, 0, c))
            /\ \A c1, c2 \in DOMAIN conversion.table :
                   c1 <= c2 => conversion.table[c1] <= conversion.table[c2]
    IN  /\ htmlError # "AssertionError"
        /\ hpc \in {"gathered", "ready"} =>
               /\ Ascending(OffsetsToConvert(document, parserFiles))
               /\ \A i \in 1..Len(parserFiles) :
                      /\ to_char_offset(document, parserFiles[i].start)
                             \in CandidateOffsets(document, parserFiles[i])
                      /\ NextCharOffset(document, parserFiles[i])
                             \in CandidateOffsets(document, parserFiles[i])
               /\ Converted(char_to_byte_offset(document, OffsetsToConvert(document, parserFiles), 0, <<>>))

\* A candidate on the second line, behind a character of two bytes.
C27_Witness ==
    /\ hpc = "ready"
    /\ Len(embedded) >= 1
    /\ \E i \in 1..Len(parserFiles) :
           /\ parserFiles[i].start.line = 2
           /\ tell(document, to_char_offset(document, parserFiles[i].start))
                  > to_char_offset(document, parserFiles[i].start)

-----------------------------------------------------------------------------
(* The spans of data URLs in attributes.                                   *)

\* The attribute as written holds a data URL with a payload.
DataAttribute(attr) ==
    /\ attr.quote # "none"
    /\ StartsWith(attr.value, DATA_SCHEME)
    /\ Find(attr.value, <<",">>, 0) >= 0
    /\ Find(attr.value, <<",">>, 0) + 1 < Len(attr.value)

\* The attributes of a start tag that give a candidate: those with a data
\* URL that no later attribute of the same name replaces.
CandidateAttributes(seg) ==
    SelectSeq([k \in 1..Len(seg.attrs) |-> k],
              LAMBDA k : /\ DataAttribute(seg.attrs[k])
                         /\ \A j \in (k + 1)..Len(seg.attrs) :
                                Lower(seg.attrs[j].name) # Lower(seg.attrs[k].name))

\* The bytes that the value of attribute k of segment i occupies in the
\* document as it was written, without its quotes.
WrittenValueSpan(segs, i, k) ==
    LET ValueAt(start, attr) ==
            <<start + (IF attr.quote = "" THEN 0 ELSE 1),
              start + (IF attr.quote = "" THEN 0 ELSE 1) + ByteLength(attr.value)>>
    IN  ValueAt(ByteLength(WriteDocument(SubSeq(segs, 1, i - 1)))
                    + 1 + Len(segs[i].tag)
                    + Len(Concat([j \in 1..(k - 1) |-> WriteAttr(segs[i].attrs[j])]))
                    + 1 + Len(segs[i].attrs[k].name) + 1,
                segs[i].attrs[k])

\* The spans of all candidate attributes of the document, in its order.
WrittenValueSpans(segs) ==
    Concat([i \in 1..Len(segs) |->
               IF segs[i].kind # "start" THEN <<>>
               ELSE [n \in 1..Len(CandidateAttributes(segs[i])) |->
                        WrittenValueSpan(segs, i, CandidateAttributes(segs[i])[n])]])

\* Documents whose candidates all come from attributes.
AttributeDocument(segs) ==
    \A i \in 1..Len(segs) : segs[i].kind = "start" \/ segs[i] \in PlainSegments

\* C28: every candidate from a start-tag attribute that holds a data URL with
\* a payload gives an entry whose span is exactly the value of the attribute
\* in the source, without its quotes, for single-quoted, double-quoted and
\* unquoted values; no such candidate is dropped.
C28_AttributeValueSpans ==
    (hpc \in {"gathered", "ready"} /\ AttributeDocument(htmlInput)) =>
        [i \in 1..Len(embedded) |-> embedded[i].span] = WrittenValueSpans(htmlInput)

-----------------------------------------------------------------------------
(* A mount source of either backend in use: the construction, then calls   *)
(* of the index, open() and reads and seeks of the readers in any order.   *)

\* A member named by a long-name table, the table, and a member with a BSD
\* long name in a folder.
IndexRecordTemplates ==
    { Rec(<<"/", "0">>, <<"6", "4", "4">>, <<"2">>, <<"p", "q">>),
      Rec(GNU_INDEX_NAME, <<>>, <<"4">>, TABLE_PADDED),
      BsdRec(<<"3">>, <<"4">>, <<"d", "/", "e", "x">>) }

\* Documents of at most two segments.
IndexSegmentSeqs == {segments \in MountSegmentSeqs : Len(segments) =< 2}

IndexRecordSeqs == UNION {[1..n -> IndexRecordTemplates] : n \in 0..MaxMountRecords}

InitIndex ==
    /\ UrlIdle
    /\ PathIdle
    /\ Unused
    /\ \/ /\ HtmlIdle
          /\ input \in [magic : {ARCH_MAGIC}, recs : IndexRecordSeqs, cut : {0}]
          /\ stream = WriteArchive(input.magic, input.recs, input.cut)
          /\ fpos = 0
          /\ is_thin = FALSE
          /\ long_names = None
          /\ files = <<>>
          /\ pc = "magic"
          /\ rows = <<>>
          /\ reader = NoReader
          /\ result = NoResult
       \/ /\ ArIdle
          /\ htmlInput \in IndexSegmentSeqs
          /\ document = WriteDocument(htmlInput)
          /\ ev = 1
          /\ parserFiles = <<>>
          /\ embedded = <<>>
          /\ hpc = "feed"
          /\ htmlError = "None"
          /\ htmlRows = <<>>
          /\ opened = 0
          /\ htmlFile = NoUrlFile

NextIndex ==
    \/ /\ \/ ReadMagic
          \/ ParseRecord
          \/ Finalize
          \/ \E i \in 1..MaxMountRecords : Open(i)
          \/ Read(1)
          \/ \E offset \in {0, 1} : Seek(offset, "SEEK_SET")
       /\ UNCHANGED <<besideAr, indexVars>>
    \/ /\ \/ HandleStartTag
          \/ GatherEmbeddedFiles
          \/ FinalizeHtml
          \/ \E i \in 1..MaxMountSegments : OpenHtml(i)
       /\ UNCHANGED <<besideHtml, indexVars>>
    \/ Query

SpecIndex == InitIndex /\ [][NextIndex]_vars

\* C21: the rows are written once, by the installation of all rows at the end
\* of the construction, when the parser has finished with its rewrites of
\* names; from then on no lookup, list, versions, open, read or seek changes
\* a row, and lookup and list of the path that was asked for give again what
\* the earlier call gave.
C21_IndexWrittenOnce ==
    [][/\ rows' # rows => pc = "parsed" /\ pc' = "ready" /\ rows = <<>> /\ files' = files
       /\ htmlRows' # htmlRows => hpc = "gathered" /\ hpc' = "ready" /\ htmlRows = <<>>
       /\ (pc = "ready" \/ hpc = "ready") =>
              /\ MountRows' = MountRows
              /\ query # NoQuery =>
                     /\ query.lookup \in lookup(MountRows', query.path)
                     /\ query.list = list(MountRows', query.path)]_vars

\* The member /0 was given its name by the table behind it before the rows
\* were installed; the index was asked and the member was read.
C21_Witness ==
    /\ pc = "ready"
    /\ Len(input.recs) = 2
    /\ input.recs[1].name = <<"/", "0">>
    /\ input.recs[2].name = GNU_INDEX_NAME
    /\ ~is_thin
    /\ rows[1].name = <<"k">>
    /\ query # NoQuery
    /\ result.status = "data"

-----------------------------------------------------------------------------
(* Threads that call open() and close() of one HTML mount source.           *)

\* A lock of its own for close().
CloseLockMutant == "closeLock"

\* The lock close() takes: self.fileObjectLock, the one of _open_with_span.
CloseLock == "fileObjectLock"

InOpenSection(t) == tpc[t] \in {"locked", "sought", "read"}

\* seek(start) under the lock: a closed stream raises ValueError, and the
\* with statement gives the lock back on the way out.
ClosingSeek(t) ==
    IF backing = "open" THEN ThreadSeek(t)
    ELSE /\ tpc[t] = "locked"
         /\ tresult' = [tresult EXCEPT ![t] = [@ EXCEPT !.status = "ValueError"]]
         /\ tpc' = [tpc EXCEPT ![t] = "read"]
         /\ UNCHANGED <<lockHolder, treader, spos>>

\* read(end - start) under the lock.
ClosingRead(t) ==
    IF backing = "open" THEN ThreadRead(t)
    ELSE /\ tpc[t] = "sought"
         /\ tresult' = [tresult EXCEPT ![t] = [@ EXCEPT !.status = "ValueError"]]
         /\ tpc' = [tpc EXCEPT ![t] = "read"]
         /\ UNCHANGED <<lockHolder, treader, spos>>

\* The caller has its DataURLFile or its exception; the thread is free for
\* the next call.
ClosingReturn(t) ==
    /\ tpc[t] = "done"
    /\ tpc' = [tpc EXCEPT ![t] = "idle"]
    /\ treader' = [treader EXCEPT ![t] = NoReader]
    /\ tresult' = [tresult EXCEPT ![t] = NoResult]
    /\ UNCHANGED <<lockHolder, spos>>

\* close() on thread t, lines 509-511: after the inherited close the lock
\* is taken, ...
CloseAcquire(t) ==
    /\ hpc = "ready"
    /\ tpc[t] = "idle"
    /\ closes < MaxCloses
    /\ LockFree(CloseLock)
    /\ lockHolder' = SetLock(CloseLock, t)
    /\ tpc' = [tpc EXCEPT ![t] = "closing"]
    /\ UNCHANGED <<treader, tresult, spos, lifeVars>>

\* ... the stream is closed (lines 512-513), which does nothing to a closed
\* stream, ...
CloseStream(t) ==
    /\ tpc[t] = "closing"
    /\ backing' = "closed"
    /\ tpc' = [tpc EXCEPT ![t] = "closed"]
    /\ UNCHANGED <<lockHolder, treader, tresult, spos, given, closes, lastCall>>

\* ... and the lock is given back.
CloseRelease(t) ==
    /\ tpc[t] = "closed"
    /\ lockHolder' = SetLock(CloseLock, 0)
    /\ closes' = closes + 1
    /\ tpc' = [tpc EXCEPT ![t] = "idle"]
    /\ UNCHANGED <<treader, tresult, spos, given, backing, lastCall>>

InitClosing ==
    /\ UrlIdle
    /\ PathIdle
    /\ Unused
    /\ ArIdle
    /\ htmlInput \in ThreadSegmentSeqs
    /\ document = WriteDocument(htmlInput)
    /\ ev = 1
    /\ parserFiles = <<>>
    /\ embedded = <<>>
    /\ hpc = "feed"
    /\ htmlError = "None"
    /\ htmlRows = <<>>
    /\ opened = 0
    /\ htmlFile = NoUrlFile

NextClosing ==
    \/ /\ \/ HandleStartTag
          \/ GatherEmbeddedFiles
          \/ FinalizeHtml
       /\ UNCHANGED <<besideHtml, indexVars>>
    \/ /\ \E t \in Threads :
             \/ \E i \in 1..2 : ThreadOpen(t, i)
             \/ ThreadAcquire(t, -1)
             \/ ClosingSeek(t)
             \/ ClosingRead(t)
             \/ ThreadRelease(t)
             \/ ClosingReturn(t)
       /\ UNCHANGED <<arVars, urlVars, htmlVars, pathVars, indexVars, lifeVars>>
    \/ /\ \E t \in Threads :
             \/ CloseAcquire(t)
             \/ CloseStream(t)
             \/ CloseRelease(t)
       /\ UNCHANGED <<arVars, urlVars, htmlVars, pathVars, indexVars>>

SpecClosing == InitClosing /\ [][NextClosing]_vars

\* C30: open() and close() of an HTML mount source on different threads
\* exclude each other: the stream is never closed while a thread is between
\* taking the lock for its seek and read and giving it back, and not both an
\* open() and a close() hold the lock; an open() gets the text of its own
\* span, all of it, or fails as a whole at its seek, with the stream closed
\* before it took the lock.
C30_OpenAndCloseExclude ==
    [][\A t \in Threads :
          /\ backing' # backing => \A u \in Threads : ~InOpenSection(u)
          /\ InOpenSection(t)' => \A u \in Threads \ {t} : tpc'[u] \notin {"closing", "closed"} /\ ~InOpenSection(u)'
          /\ tresult[t].status = "data" => tresult[t].data = OwnData(t)
          /\ (tresult'[t].status = "ValueError" /\ tresult[t].status # "ValueError") =>
                 /\ tpc[t] = "locked"
                 /\ backing = "closed"
                 /\ tresult'[t].data = <<>>]_vars

\* close() has closed the stream and given the lock back, and an open() that
\* took the lock after it has failed at its seek.
C30_Witness ==
    /\ closes > 0
    /\ backing = "closed"
    /\ \E t \in Threads :
          /\ tpc[t] = "done"
          /\ tresult[t].status = "ValueError"

=============================================================================
